---------------------------- MODULE Spec2Model ----------------------------
(***************************************************************************)
(* The lead-conversion agent: inbound WhatsApp messages are classified     *)
(* (agents/lead_agent.py), stored (database/database.py), answered         *)
(* (services/whatsapp_service.py) and, once a meeting is accepted, slots    *)
(* are computed and booked (services/calendar_service.py).                 *)
(*                                                                         *)
(* Texts are sequences of characters, so that prefix, substring, regular   *)
(* expression and normalisation steps are computed as the code computes    *)
(* them.  Times are minutes counted from 00:00 of the current day.         *)
(***************************************************************************)
EXTENDS Integers, Sequences, FiniteSets, TLC

\* Characters are atoms; an ASCII character is itself, the others are named
\* ("a~" is a-tilde, "comb~" the combining tilde, "emoji:smile" a pictograph, "LF" a newline).
\* The tables below were computed with Python's str.lower, unicodedata.normalize("NFKD"),
\* unicodedata.combining and unicodedata.category for every character the model uses.
\* str.lower(), character by character
LowerTable ==
  {<<"A", "a">>, <<"B", "b">>, <<"C", "c">>, <<"D", "d">>, <<"E", "e">>, <<"F", "f">>, <<"G", "g">>, <<"H", "h">>, <<"I", "i">>, <<"J", "j">>, <<"K", "k">>, <<"L", "l">>, <<"M", "m">>, <<"N", "n">>, <<"O", "o">>, <<"P", "p">>, <<"Q", "q">>, <<"R", "r">>, <<"S", "s">>, <<"T", "t">>, <<"U", "u">>, <<"V", "v">>, <<"W", "w">>, <<"X", "x">>, <<"Y", "y">>, <<"Z", "z">>, <<"A~", "a~">>}
\* unicodedata.normalize("NFKD", c) where it is not c itself
NFKDTable ==
  {<<"A~", <<"A", "comb~">>>>, <<"a'", <<"a", "comb'">>>>, <<"a~", <<"a", "comb~">>>>, <<"c,", <<"c", "comb,">>>>, <<"e'", <<"e", "comb'">>>>, <<"e^", <<"e", "comb^">>>>, <<"i'", <<"i", "comb'">>>>, <<"o'", <<"o", "comb'">>>>, <<"o~", <<"o", "comb~">>>>}
\* unicodedata.combining(c) # 0
CombiningChars == {"comb'", "comb^", "comb~", "comb,"}
\* unicodedata.category(c) starts with "So"
SymbolOtherChars == {"emoji:smile", "emoji:angry"}
\* characters matched by \s in a Python regular expression
SpaceChars == {"TAB", "LF", " "}
LowerLetters == {"a", "b", "c", "d", "e", "f", "g", "h", "i", "j", "k", "l", "m", "n", "o", "p", "q", "r", "s", "t", "u", "v", "w", "x", "y", "z"}
UpperLetters == {"A", "B", "C", "D", "E", "F", "G", "H", "I", "J", "K", "L", "M", "N", "O", "P", "Q", "R", "S", "T", "U", "V", "W", "X", "Y", "Z"}
Digits == {"0", "1", "2", "3", "4", "5", "6", "7", "8", "9"}

P_feedback == <<"f", "e", "e", "d", "b", "a", "c", "k", "_">>
P_interesse == <<"i", "n", "t", "e", "r", "e", "s", "s", "e", "_">>
P_horario == <<"h", "o", "r", "a", "r", "i", "o", "_">>
ID_feedback_positivo == <<"f", "e", "e", "d", "b", "a", "c", "k", "_", "p", "o", "s", "i", "t", "i", "v", "o">>
ID_feedback_bom == <<"f", "e", "e", "d", "b", "a", "c", "k", "_", "b", "o", "m">>
ID_feedback_neutro == <<"f", "e", "e", "d", "b", "a", "c", "k", "_", "n", "e", "u", "t", "r", "o">>
ID_feedback_negativo == <<"f", "e", "e", "d", "b", "a", "c", "k", "_", "n", "e", "g", "a", "t", "i", "v", "o">>
ID_interesse_alto == <<"i", "n", "t", "e", "r", "e", "s", "s", "e", "_", "a", "l", "t", "o">>
ID_interesse_medio == <<"i", "n", "t", "e", "r", "e", "s", "s", "e", "_", "m", "e", "d", "i", "o">>
ID_interesse_futuro == <<"i", "n", "t", "e", "r", "e", "s", "s", "e", "_", "f", "u", "t", "u", "r", "o">>
ID_sem_interesse == <<"s", "e", "m", "_", "i", "n", "t", "e", "r", "e", "s", "s", "e">>
ID_aceita_reuniao == <<"a", "c", "e", "i", "t", "a", "_", "r", "e", "u", "n", "i", "a", "o">>
ID_prefere_whatsapp == <<"p", "r", "e", "f", "e", "r", "e", "_", "w", "h", "a", "t", "s", "a", "p", "p">>
ID_prefere_email == <<"p", "r", "e", "f", "e", "r", "e", "_", "e", "m", "a", "i", "l">>
ID_sem_tempo == <<"s", "e", "m", "_", "t", "e", "m", "p", "o">>
TAG_feedback == <<"f", "e", "e", "d", "b", "a", "c", "k", ":">>
TAG_interesse == <<"i", "n", "t", "e", "r", "e", "s", "s", "e", ":">>
TAG_meeting_pref == <<"m", "e", "e", "t", "i", "n", "g", "_", "p", "r", "e", "f", ":">>
TAG_email == <<"e", "m", "a", "i", "l", ":">>
TAG_available_slots == <<"a", "v", "a", "i", "l", "a", "b", "l", "e", "_", "s", "l", "o", "t", "s", ":">>
TAG_email_saved == <<"e", "m", "a", "i", "l", "_", "s", "a", "v", "e", "d", ":">>
TAG_PerguntaFeedback == <<"P", "e", "r", "g", "u", "n", "t", "a", "F", "e", "e", "d", "b", "a", "c", "k", ":">>
MSG_PerguntaFeedback == <<"P", "e", "r", "g", "u", "n", "t", "a", "F", "e", "e", "d", "b", "a", "c", "k", ":", " ", "e", "n", "v", "i", "a", "d", "a">>
MARK_meeting_accept == <<"m", "e", "e", "t", "i", "n", "g", "_", "p", "r", "e", "f", ":", "a", "c", "e", "i", "t", "a", "_", "r", "e", "u", "n", "i", "a", "o">>
\* the fallbacks dict of _get_fallback_response, and the default of its .get
fallbacks ==
  [inicial |-> <<"O", "i", " ", "A", "n", "a", "!", " ", "C", "o", "m", "o", " ", "v", "o", "c", "e^", " ", "a", "c", "h", "o", "u", " ", "n", "o", "s", "s", "o", " ", "s", "e", "m", "i", "n", "a'", "r", "i", "o", "?">>,
   pos_feedback |-> <<"L", "e", "g", "a", "l", "!", " ", "T", "e", " ", "m", "o", "s", "t", "r", "o", " ", "a", "s", " ", "o", "p", "c,", "o~", "e", "s", " ", "d", "e", " ", "p", "o'", "s", "-", "g", "r", "a", "d", "u", "a", "c,", "a~", "o", "?">>,
   pos_interesse |-> <<"P", "e", "r", "f", "e", "i", "t", "o", "!", " ", "P", "r", "e", "f", "e", "r", "e", " ", "c", "o", "n", "v", "e", "r", "s", "a", "r", " ", "p", "o", "r", " ", "a", "q", "u", "i", " ", "o", "u", " ", "a", "g", "e", "n", "d", "a", "r", " ", "u", "n", "s", " ", "m", "i", "n", "u", "t", "i", "n", "h", "o", "s", "?">>,
   pos_reuniao |-> <<"T", "r", "a", "n", "q", "u", "i", "l", "o", "!", " ", "Q", "u", "a", "l", "q", "u", "e", "r", " ", "c", "o", "i", "s", "a", " ", "m", "e", " ", "c", "h", "a", "m", "a", " ", "q", "u", "e", " ", "o", "r", "g", "a", "n", "i", "z", "a", "m", "o", "s", ".">>,
   email_fornecido |-> <<"E", "m", "a", "i", "l", " ", "s", "a", "l", "v", "o", ",", " ", "A", "n", "a", "!", " ", "T", "e", " ", "r", "e", "t", "o", "r", "n", "o", " ", "c", "o", "m", " ", "a", "s", " ", "i", "n", "f", "o", "r", "m", "a", "c,", "o~", "e", "s", ".">>,
   conversa_livre |-> <<"E", "n", "t", "e", "n", "d", "i", ".", " ", "P", "o", "s", "s", "o", " ", "t", "e", " ", "e", "x", "p", "l", "i", "c", "a", "r", " ", "m", "e", "l", "h", "o", "r", " ", "s", "o", "b", "r", "e", " ", "a", "s", " ", "o", "p", "o", "r", "t", "u", "n", "i", "d", "a", "d", "e", "s", "?">>]
IN_gostei_muito == <<"G", "o", "s", "t", "e", "i", " ", "m", "u", "i", "t", "o", "!", "!">>
IN_3 == <<"3">>
IN_email == <<"a", "@", "b", ".", "c", "o">>
IN_horario_1 == <<"h", "o", "r", "a", "r", "i", "o", "_", "1">>
IN_horario_6 == <<"h", "o", "r", "a", "r", "i", "o", "_", "6">>
IN_quanto_custa == <<"q", "u", "a", "n", "t", "o", " ", "c", "u", "s", "t", "a">>

\* _BTN_MAP in declaration order: <<label, intent id>>
BTN_MAP ==
  << <<<<"g", "o", "s", "t", "e", "i", " ", "m", "u", "i", "t", "o">>, ID_feedback_positivo>>,
     <<<<"a", "m", "e", "i">>, ID_feedback_positivo>>,
     <<<<"m", "u", "i", "t", "o", " ", "b", "o", "m">>, ID_feedback_positivo>>,
     <<<<"g", "o", "s", "t", "e", "i">>, ID_feedback_bom>>,
     <<<<"f", "o", "i", " ", "o", "k">>, ID_feedback_neutro>>,
     <<<<"o", "k">>, ID_feedback_neutro>>,
     <<<<"l", "e", "g", "a", "l">>, ID_feedback_neutro>>,
     <<<<"m", "a", "i", "s", " ", "o", "u", " ", "m", "e", "n", "o", "s">>, ID_feedback_neutro>>,
     <<<<"n", "a", "o", " ", "g", "o", "s", "t", "e", "i">>, ID_feedback_negativo>>,
     <<<<"n", "a~", "o", " ", "g", "o", "s", "t", "e", "i">>, ID_feedback_negativo>>,
     <<<<"r", "u", "i", "m">>, ID_feedback_negativo>>,
     <<<<"t", "e", "n", "h", "o", " ", "m", "u", "i", "t", "o", " ", "i", "n", "t", "e", "r", "e", "s", "s", "e">>, ID_interesse_alto>>,
     <<<<"t", "e", "n", "h", "o", " ", "i", "n", "t", "e", "r", "e", "s", "s", "e">>, ID_interesse_medio>>,
     <<<<"t", "a", "l", "v", "e", "z", " ", "f", "u", "t", "u", "r", "a", "m", "e", "n", "t", "e">>, ID_interesse_futuro>>,
     <<<<"n", "a", "o", " ", "t", "e", "n", "h", "o", " ", "i", "n", "t", "e", "r", "e", "s", "s", "e">>, ID_sem_interesse>>,
     <<<<"n", "a~", "o", " ", "t", "e", "n", "h", "o", " ", "i", "n", "t", "e", "r", "e", "s", "s", "e">>, ID_sem_interesse>>,
     <<<<"s", "i", "m", " ", "q", "u", "e", "r", "o", " ", "u", "m", "a", " ", "r", "e", "u", "n", "i", "a", "o">>, ID_aceita_reuniao>>,
     <<<<"s", "i", "m", ",", " ", "q", "u", "e", "r", "o", " ", "u", "m", "a", " ", "r", "e", "u", "n", "i", "a", "o">>, ID_aceita_reuniao>>,
     <<<<"a", "g", "e", "n", "d", "a", "r", " ", "1", "5", " ", "m", "i", "n">>, ID_aceita_reuniao>>,
     <<<<"p", "r", "e", "f", "i", "r", "o", " ", "w", "h", "a", "t", "s", "a", "p", "p">>, ID_prefere_whatsapp>>,
     <<<<"f", "a", "l", "o", " ", "p", "o", "r", " ", "w", "h", "a", "t", "s", "a", "p", "p">>, ID_prefere_whatsapp>>,
     <<<<"e", "n", "v", "i", "e", "m", " ", "p", "o", "r", " ", "e", "m", "a", "i", "l">>, ID_prefere_email>>,
     <<<<"p", "r", "e", "f", "i", "r", "o", " ", "e", "m", "a", "i", "l">>, ID_prefere_email>>,
     <<<<"s", "e", "m", " ", "t", "e", "m", "p", "o", " ", "a", "g", "o", "r", "a">>, ID_sem_tempo>> >>
positives ==
  << <<"g", "o", "s", "t", "e", "i">>,
     <<"o", "t", "i", "m", "o">>,
     <<"o'", "t", "i", "m", "o">>,
     <<"e", "x", "c", "e", "l", "e", "n", "t", "e">>,
     <<"a", "m", "e", "i">>,
     <<"m", "u", "i", "t", "o", " ", "b", "o", "m">>,
     <<"m", "a", "r", "a", "v", "i", "l", "h", "o">>,
     <<"a", "p", "r", "e", "n", "d", "i">> >>
negatives ==
  << <<"n", "a", "o", " ", "g", "o", "s", "t", "e", "i">>,
     <<"n", "a~", "o", " ", "g", "o", "s", "t", "e", "i">>,
     <<"r", "u", "i", "m">>,
     <<"h", "o", "r", "r", "i", "v", "e", "l">>,
     <<"h", "o", "r", "r", "i'", "v", "e", "l">>,
     <<"p", "e", "s", "s", "i", "m", "o">>,
     <<"p", "e'", "s", "s", "i", "m", "o">>,
     <<"d", "e", "c", "e", "p", "c", "i", "o", "n">> >>
neutral ==
  << <<"o", "k">>,
     <<"l", "e", "g", "a", "l">>,
     <<"b", "o", "m">>,
     <<"i", "n", "t", "e", "r", "e", "s", "s", "a", "n", "t", "e">>,
     <<"m", "a", "i", "s", " ", "o", "u", " ", "m", "e", "n", "o", "s">>,
     <<"n", "e", "u", "t", "r", "o">> >>
meeting_indicators ==
  << <<"m", "e", "e", "t", "i", "n", "g", "_", "p", "r", "e", "f", ":", "a", "c", "e", "i", "t", "a", "_", "r", "e", "u", "n", "i", "a", "o">>,
     <<"s", "i", "m", ",", " ", "q", "u", "e", "r", "o", " ", "u", "m", "a", " ", "r", "e", "u", "n", "i", "a~", "o">>,
     <<"a", "g", "e", "n", "d", "a", "r", " ", "2", "0", "endash", "3", "0", " ", "m", "i", "n">>,
     <<"q", "u", "a", "l", " ", "s", "e", "u", " ", "e", "-", "m", "a", "i", "l", " ", "p", "a", "r", "a", " ", "e", "u", " ", "a", "d", "i", "a", "n", "t", "a", "r">>,
     <<"d", "e", "i", "x", "a", " ", "e", "u", " ", "v", "e", "r", "i", "f", "i", "c", "a", "r", " ", "n", "o", "s", "s", "a", " ", "a", "g", "e", "n", "d", "a">>,
     <<"t", "e", " ", "p", "a", "s", "s", "o", " ", "h", "o", "r", "a'", "r", "i", "o", "s">>,
     <<"w", "a", "i", "t", "i", "n", "g", "_", "e", "m", "a", "i", "l", "_", "f", "o", "r", "_", "s", "c", "h", "e", "d", "u", "l", "i", "n", "g">> >>

(***************************************************************************)
(* String primitives of Python used by the code.                           *)
(***************************************************************************)
\* s.startswith(p)
StartsWith(s, p) == Len(p) <= Len(s) /\ SubSeq(s, 1, Len(p)) = p

\* sub in s
Contains(s, sub) ==
  \E i \in 0..(Len(s) - Len(sub)) : SubSeq(s, i + 1, i + Len(sub)) = sub

\* any(x in s for x in xs)
ContainsAny(s, xs) == \E i \in 1..Len(xs) : Contains(s, xs[i])

RECURSIVE Concat(_)
Concat(ss) == IF ss = << >> THEN << >> ELSE Head(ss) \o Concat(Tail(ss))

\* sep.join(ss)
RECURSIVE Join(_, _)
Join(sep, ss) ==
  IF ss = << >> THEN << >>
  ELSE IF Len(ss) = 1 THEN ss[1]
  ELSE ss[1] \o sep \o Join(sep, Tail(ss))

\* s.replace(sub, ""), sub not empty
RECURSIVE RemoveAll(_, _)
RemoveAll(s, sub) ==
  IF Len(s) < Len(sub) THEN s
  ELSE IF SubSeq(s, 1, Len(sub)) = sub
       THEN RemoveAll(SubSeq(s, Len(sub) + 1, Len(s)), sub)
       ELSE <<Head(s)>> \o RemoveAll(Tail(s), sub)

Lower(c) == IF \E e \in LowerTable : e[1] = c
            THEN (CHOOSE e \in LowerTable : e[1] = c)[2] ELSE c
\* s.lower()
LowerStr(s) == [i \in 1..Len(s) |-> Lower(s[i])]

NFKDChar(c) == IF \E e \in NFKDTable : e[1] = c
               THEN (CHOOSE e \in NFKDTable : e[1] = c)[2] ELSE <<c>>
\* unicodedata.normalize("NFKD", s)
NFKD(s) == Concat([i \in 1..Len(s) |-> NFKDChar(s[i])])

\* s.strip()
RECURSIVE LStrip(_)
LStrip(s) == IF s # << >> /\ Head(s) \in SpaceChars THEN LStrip(Tail(s)) ELSE s
RECURSIVE RStrip(_)
RStrip(s) == IF s # << >> /\ s[Len(s)] \in SpaceChars
             THEN RStrip(SubSeq(s, 1, Len(s) - 1)) ELSE s
Strip(s) == RStrip(LStrip(s))

\* re.sub(r"\s+", " ", s): every maximal run of whitespace becomes one space
RECURSIVE CollapseSpaces(_)
CollapseSpaces(s) ==
  IF s = << >> THEN << >>
  ELSE IF Head(s) \in SpaceChars
       THEN <<" ">> \o CollapseSpaces(LStrip(s))
       ELSE <<Head(s)>> \o CollapseSpaces(Tail(s))

\* int(s) for the decimal forms "12", "-3", "+4": <<TRUE, n>>, or <<FALSE, 0>> for
\* the ValueError
DigitValue(c) == CHOOSE n \in 0..9 : <<"0", "1", "2", "3", "4", "5", "6", "7", "8", "9">>[n + 1] = c
RECURSIVE DigitsValue(_)
DigitsValue(s) ==
  IF s = << >> THEN 0 ELSE 10 * DigitsValue(SubSeq(s, 1, Len(s) - 1)) + DigitValue(s[Len(s)])
AllDigits(s) == s # << >> /\ \A i \in 1..Len(s) : s[i] \in Digits
ParseInt(text) ==
  LET s == Strip(text) IN
  IF AllDigits(s) THEN <<TRUE, DigitsValue(s)>>
  ELSE IF s # << >> /\ Head(s) = "-" /\ AllDigits(Tail(s)) THEN <<TRUE, 0 - DigitsValue(Tail(s))>>
  ELSE IF s # << >> /\ Head(s) = "+" /\ AllDigits(Tail(s)) THEN <<TRUE, DigitsValue(Tail(s))>>
  ELSE <<FALSE, 0>>

(***************************************************************************)
(* agents/lead_agent.py: the utilities                                     *)
(***************************************************************************)
strip_emoji(s) == SelectSeq(s, LAMBDA ch : ch \notin SymbolOtherChars)

\* the characters re.sub(r"[^a-z0-9\s\-:@.]+", "", s) keeps
NormalizeKeeps(c) ==
  c \in LowerLetters \cup Digits \cup SpaceChars \cup {"-", ":", "@", "."}

\* a normalization that collapses the whitespace before it removes characters
normalize_collapse_first(s) ==
  LET s1 == strip_emoji(s)
      s2 == NFKD(LowerStr(s1))
      s3 == SelectSeq(s2, LAMBDA c : c \notin CombiningChars)
      s4 == SelectSeq(Strip(CollapseSpaces(s3)), NormalizeKeeps)
  IN  s4

normalize(s) ==
  LET s1 == strip_emoji(s)
      s2 == NFKD(LowerStr(s1))
      s3 == SelectSeq(s2, LAMBDA c : c \notin CombiningChars)
      s4 == SelectSeq(s3, NormalizeKeeps)
  IN  Strip(CollapseSpaces(s4))

\* ^[a-zA-Z0-9._%+-]+@[a-zA-Z0-9.-]+\.[a-zA-Z]{2,}$ matched on text.strip()
EmailLocalChars == LowerLetters \cup UpperLetters \cup Digits \cup {".", "_", "%", "+", "-"}
EmailDomainChars == LowerLetters \cup UpperLetters \cup Digits \cup {".", "-"}
AllIn(s, S) == \A i \in 1..Len(s) : s[i] \in S
is_email(text) ==
  LET t == Strip(text) IN
  \E a \in 1..Len(t) : \E d \in 1..Len(t) :
     /\ t[a] = "@" /\ t[d] = "." /\ a < d
     /\ a > 1 /\ AllIn(SubSeq(t, 1, a - 1), EmailLocalChars)
     /\ d > a + 1 /\ AllIn(SubSeq(t, a + 1, d - 1), EmailDomainChars)
     /\ Len(t) - d >= 2 /\ AllIn(SubSeq(t, d + 1, Len(t)), LowerLetters \cup UpperLetters)

\* None of Optional[str]
None == <<"None">>

BtnExact(key) == {i \in 1..Len(BTN_MAP) : BTN_MAP[i][1] = key}
BtnSubstring(key) ==
  {i \in 1..Len(BTN_MAP) :
     LET k == normalize(BTN_MAP[i][1]) IN Contains(key, k) \/ Contains(k, key)}
Min(S) == CHOOSE x \in S : \A y \in S : x <= y

\* a mapper without the exact lookup
map_label_by_substring(label) ==
  IF label = << >> THEN None
  ELSE LET key == normalize(label) IN
       IF BtnSubstring(key) # {} THEN BTN_MAP[Min(BtnSubstring(key))][2]
       ELSE None

map_label_to_id(label) ==
  IF label = << >> THEN None
  ELSE LET key == normalize(label) IN
       IF BtnExact(key) # {} THEN BTN_MAP[Min(BtnExact(key))][2]
       ELSE IF BtnSubstring(key) # {} THEN BTN_MAP[Min(BtnSubstring(key))][2]
       ELSE None

infer_feedback_from_free_text(text) ==
  LET t == normalize(text) IN
  IF ContainsAny(t, positives) THEN ID_feedback_positivo
  ELSE IF ContainsAny(t, negatives) THEN ID_feedback_negativo
  ELSE IF ContainsAny(t, neutral) THEN ID_feedback_neutro
  ELSE None

(***************************************************************************)
(* Bounds of the model                                                     *)
(***************************************************************************)
\* inbound deliveries and campaign starts explored in one behaviour
MaxDeliveries == 3
\* handlers suspended at an await at the same time
MaxInFlight == 2
\* failures of collaborators (database, transport, calendar, generative call)
\* explored in one behaviour
MaxFaults == 1
\* weekday of the current day, datetime.now().weekday(): 0 is Monday
TodayWeekday == 0

Phones == {"5511"}
\* pushName of the sender; the default "Cliente" of handle_message is one more name
UserName == "Ana"

(***************************************************************************)
(* Program constants                                                       *)
(***************************************************************************)
BusinessStart == 9
BusinessEnd == 18
\* a service that works on every day of the week
EveryWeekday == 0..6

BusinessWeekdays == {0, 1, 2, 3, 4}
GridStep == 30
SlotCap == 10
DaysAhead == 7
SlotMinutes == 30
SnapshotSize == 5
MeetingMinutes == 30
CalendarMinutes == 60
HistorySelect == 10
HistoryEmail == 12
HistoryFree == 8
ContextWindow == 10
StageWindow == 6
PromptWindow == 4
MinutesPerDay == 24 * 60

VARIABLES
  leads,      \* table leads: phone -> the Lead row, or no row
  chat,       \* table chat_messages: phone -> the lead's turns, oldest first
  events,     \* table calendar_events, in insertion order
  gcal,       \* the events this program created in the Google calendar
  last_sent,  \* WhatsAppService.last_sent: phone -> a send to it succeeded
  anthropic,  \* LeadAgent.anthropic is a client (an API key is configured)
  inflight,   \* the handlers suspended at an await
  delivered,  \* deliveries started so far
  faults,     \* failures of collaborators so far
  last,       \* what the handler that returned last did
  probe       \* the direct call of a function: its arguments and its result

vars == <<leads, chat, events, gcal, last_sent, anthropic, inflight, delivered, faults, last,
          probe>>

(***************************************************************************)
(* database/database.py.  Every method runs in a session of its own and    *)
(* commits on exit, so each call is a transaction: it takes the tables w   *)
(* to the tables after it, or raises and changes nothing.                  *)
(***************************************************************************)
\* rows is the number of rows of the table leads with the phone
NoLead == [exists |-> FALSE, name |-> "", source |-> "", status |-> "", rows |-> 0]

Tables == [leads |-> leads, chat |-> chat, events |-> events]

\* a create that inserts a row without looking for an existing one
create_lead_always_inserts(w, phone, name, source) ==
  [w EXCEPT !.leads[phone] =
     [exists |-> TRUE, name |-> name, source |-> source, status |-> "NEW",
      rows |-> w.leads[phone].rows + 1]]

create_lead(w, phone, name, source) ==
  IF w.leads[phone].exists THEN w
  ELSE [w EXCEPT !.leads[phone] =
          [exists |-> TRUE, name |-> name, source |-> source, status |-> "NEW",
           rows |-> w.leads[phone].rows + 1]]

\* the callers only test the result for truth
get_lead_by_phone(w, phone) == w.leads[phone].exists

\* an update whose query has no filter on the phone
update_lead_status_every_lead(w, phone, status) ==
  IF w.leads[phone].exists
  THEN [w EXCEPT !.leads = [p \in DOMAIN w.leads |->
                              IF w.leads[p].exists THEN [w.leads[p] EXCEPT !.status = status]
                              ELSE w.leads[p]]]
  ELSE w

update_lead_status(w, phone, status) ==
  IF w.leads[phone].exists THEN [w EXCEPT !.leads[phone].status = status] ELSE w

\* payload is the structured part of the text: the list formatted into an
\* available_slots: turn, << >> for every other turn
save_chat_message(w, phone, role, message, payload) ==
  IF w.leads[phone].exists
  THEN [w EXCEPT !.chat[phone] =
          Append(@, [role |-> role, message |-> message, payload |-> payload])]
  ELSE w

\* order_by(timestamp.desc()).limit(limit): the newest turn first
get_chat_history(w, phone, limit) ==
  LET t == w.chat[phone]
      n == IF Len(t) < limit THEN Len(t) ELSE limit
  IN  [i \in 1..n |-> t[Len(t) + 1 - i]]

\* a save that stores no row
save_calendar_event_without_row(w, phone, google_event_id, start_time, end_time, attendee_email) ==
  w

save_calendar_event(w, phone, google_event_id, start_time, end_time, attendee_email) ==
  IF w.leads[phone].exists
  THEN [w EXCEPT !.events =
          Append(@, [phone |-> phone, google_event_id |-> google_event_id,
                     start_time |-> start_time, end_time |-> end_time,
                     attendee_email |-> attendee_email])]
  ELSE w

\* One database call of a handler, as data: the calls of a handler segment are
\* run in order, and call number f raises (f = 0: none does).
Apply(w, c) ==
  CASE c.op = "create_lead" -> create_lead(w, c.phone, c.name, c.source)
    [] c.op = "update_lead_status" -> update_lead_status(w, c.phone, c.status)
    [] c.op = "save_chat_message" -> save_chat_message(w, c.phone, c.role, c.message, c.payload)
    [] c.op = "save_calendar_event" ->
         save_calendar_event(w, c.phone, c.google_event_id, c.start_time, c.end_time,
                             c.attendee_email)
    [] OTHER -> w   \* get_lead_by_phone, log_interaction: no table of the model changes

RECURSIVE ApplyAll(_, _)
ApplyAll(w, cs) == IF cs = << >> THEN w ELSE ApplyAll(Apply(w, Head(cs)), Tail(cs))

\* get_session: commit, or rollback and re-raise.  The calls cs are made after
\* n calls of the same synchronous step; call number f of the step raises.
Run(w, cs, n, f) ==
  LET i == f - n
      fails == i >= 1 /\ i <= Len(cs)
  IN  [w |-> ApplyAll(w, SubSeq(cs, 1, IF fails THEN i - 1 ELSE Len(cs))),
       raised |-> fails,
       n |-> n + Len(cs)]

CreateLead(phone) ==
  [op |-> "create_lead", phone |-> phone, name |-> UserName, source |-> "pos_seminario"]
GetLead(phone) == [op |-> "get_lead_by_phone", phone |-> phone]
SaveMessage(phone, role, message, payload) ==
  [op |-> "save_chat_message", phone |-> phone, role |-> role, message |-> message,
   payload |-> payload]
UpdateStatus(phone, status) == [op |-> "update_lead_status", phone |-> phone, status |-> status]

\* if not db_manager.get_lead_by_phone(phone): db_manager.create_lead(...)
EnsureLead(w, phone) ==
  IF get_lead_by_phone(w, phone) THEN <<GetLead(phone)>>
  ELSE <<GetLead(phone), CreateLead(phone)>>

(***************************************************************************)
(* _get_chat_history_safe: the rows come back newest first.  The session   *)
(* that loaded them is closed when their fields are read: the loop stops   *)
(* at the first row that cannot be read and the rows before it are         *)
(* returned.  The rows of one query are detached together, so all of them  *)
(* can be read, or none can; a failing get_chat_history gives [] too.      *)
(***************************************************************************)
\* a retrieval that hands back every stored turn
get_chat_history_safe_without_limit(w, phone, limit, read) ==
  IF read = "all" THEN get_chat_history(w, phone, Len(w.chat[phone])) ELSE w.chat[phone]

get_chat_history_safe(w, phone, limit, read) ==
  IF read = "all" THEN get_chat_history(w, phone, limit) ELSE << >>

\* s[-n:]
LastN(s, n) == IF Len(s) <= n THEN s ELSE SubSeq(s, Len(s) - n + 1, Len(s))
\* s[:n]
FirstN(s, n) == IF Len(s) <= n THEN s ELSE SubSeq(s, 1, n)
\* reversed(s)
Reversed(s) == [i \in 1..Len(s) |-> s[Len(s) + 1 - i]]

(***************************************************************************)
(* services/calendar_service.py                                            *)
(***************************************************************************)
Weekday(day_offset) == (TodayWeekday + day_offset) % 7
DayStart(day_offset) == day_offset * MinutesPerDay

\* a check that only looks at where the slot begins
Overlaps_start_inside(s, e) == s.start >= e.start /\ s.start < e.end

Overlaps(s, e) == s.start < e.end /\ s.end > e.start

\* a listing that only returns the events that begin on the day
EventsStartingOnDay(busy, d) ==
  SelectSeq(busy, LAMBDA e : e.start >= DayStart(d) /\ e.start < DayStart(d) + MinutesPerDay)

\* events().list(timeMin = start_of_day, timeMax = end_of_day): the events
\* that end after the day begins and begin before it ends
EventsOfDay(busy, d) ==
  SelectSeq(busy, LAMBDA e : e.end > DayStart(d) /\ e.start < DayStart(d) + MinutesPerDay)

\* a loop that moves current_time by an hour
SlotsOfDay_on_the_hour(d, day_events, duration) ==
  LET open == DayStart(d) + BusinessStart * 60
      close == DayStart(d) + BusinessEnd * 60
      n == IF open + duration <= close THEN (close - open - duration) \div 60 + 1 ELSE 0
      cursor == [k \in 1..n |->
                   [start |-> open + (k - 1) * 60,
                    end |-> open + (k - 1) * 60 + duration]]
  IN  SelectSeq(cursor, LAMBDA s : \A i \in 1..Len(day_events) : ~Overlaps(s, day_events[i]))

\* the while loop over current_time of one target_date
SlotsOfDay(d, day_events, duration) ==
  LET open == DayStart(d) + BusinessStart * 60
      close == DayStart(d) + BusinessEnd * 60
      n == IF open + duration <= close THEN (close - open - duration) \div GridStep + 1 ELSE 0
      cursor == [k \in 1..n |->
                   [start |-> open + (k - 1) * GridStep,
                    end |-> open + (k - 1) * GridStep + duration]]
  IN  SelectSeq(cursor, LAMBDA s : \A i \in 1..Len(day_events) : ~Overlaps(s, day_events[i]))

RECURSIVE SlotsFrom(_, _, _, _)
SlotsFrom(d, days_ahead, busy, duration) ==
  IF d > days_ahead THEN << >>
  ELSE (IF Weekday(d) \in BusinessWeekdays
        THEN SlotsOfDay(d, EventsOfDay(busy, d), duration) ELSE << >>)
       \o SlotsFrom(d + 1, days_ahead, busy, duration)

\* a listing that returns every free slot of the horizon
all_available_slots(busy, days_ahead, duration_minutes) ==
  SlotsFrom(1, days_ahead, busy, duration_minutes)

\* with a connected service and no HttpError; a slot is its start and end (the
\* date_str, time_str and datetime_str of a slot are renderings of start)
get_available_slots(busy, days_ahead, duration_minutes) ==
  FirstN(SlotsFrom(1, days_ahead, busy, duration_minutes), SlotCap)

\* What the calendar holds when it is asked, besides the events this program
\* created: nothing; everything but the last hour of the last business day of
\* the horizon; everything.
At(d, hour) == DayStart(d) + hour * 60
LastBusinessDay == CHOOSE d \in 1..DaysAhead :
  Weekday(d) \in BusinessWeekdays /\ \A e \in (d + 1)..DaysAhead : Weekday(e) \notin BusinessWeekdays
BusyChoices ==
  { << >>,
    << [start |-> At(1, 0), end |-> At(LastBusinessDay, BusinessEnd - 1)] >>,
    << [start |-> At(1, 0), end |-> At(DaysAhead + 1, 0)] >> }


\* The answers of get_available_slots: the slots of the calendar that was
\* read; [] when the service is not connected or an HttpError is caught
\* ("error"); or another exception ("raise")
CalendarAnswers ==
  { [raise |-> FALSE, error |-> FALSE, slots |-> get_available_slots(
         b \o [i \in 1..Len(gcal) |-> [start |-> gcal[i].start, end |-> gcal[i].end]],
         DaysAhead, SlotMinutes)]
      : b \in BusyChoices }
  \cup { [raise |-> FALSE, error |-> TRUE, slots |-> << >>],
         [raise |-> TRUE, error |-> FALSE, slots |-> << >>] }

\* schedule_lead_meeting(preferred_time) and create_event: the event sent to
\* the calendar
schedule_lead_meeting(preferred_time) ==
  [start |-> preferred_time, end |-> preferred_time + CalendarMinutes]

\* what events().insert answers: an event id ("confirmed"), None when the
\* service is not connected or an HttpError is caught ("none"), or another
\* exception ("raise")
BookingAnswers == {"confirmed", "none", "raise"}

(***************************************************************************)
(* The snapshot turn: f"available_slots:{available_slots[:5]}" formats the *)
(* list with repr(), and _handle_time_selection parses it back with        *)
(* ast.literal_eval.  A value of a formatted slot is the call expression   *)
(* datetime.datetime(...), <<"datetime", t>>, or a string literal holding  *)
(* the time in ISO format, <<"str", t>>.                                   *)
(***************************************************************************)
\* repr() of the slot list the calendar service returns: start and end are
\* datetime objects
ReprSlots(slots) ==
  [i \in 1..Len(slots) |->
     [start |-> <<"datetime", slots[i].start>>, end |-> <<"datetime", slots[i].end>>]]

\* the same list with the times as ISO strings
IsoSlots(slots) ==
  [i \in 1..Len(slots) |->
     [start |-> <<"str", slots[i].start>>, end |-> <<"str", slots[i].end>>]]

\* ast.literal_eval accepts literals only: a call expression is a ValueError.
\* The value of a string literal is the string.
literal_eval(payload) ==
  IF \E i \in 1..Len(payload) : payload[i].start[1] # "str" \/ payload[i].end[1] # "str"
  THEN [raised |-> TRUE, value |-> << >>]
  ELSE [raised |-> FALSE, value |-> payload]

\* datetime.fromisoformat(str(start_time))
fromisoformat(v) == v[2]

(***************************************************************************)
(* agents/lead_agent.py: the dispatch of handle_message                    *)
(***************************************************************************)
ButtonPrefixes ==
  <<P_feedback, P_interesse, <<"a", "c", "e", "i", "t", "a", "_">>,
    <<"p", "r", "e", "f", "e", "r", "e", "_">>, <<"s", "e", "m", "_">>, P_horario>>

\* the handler _handle_button_response calls, and its argument
handle_button_response(response_id) ==
  IF StartsWith(response_id, P_feedback) THEN [kind |-> "feedback", rid |-> response_id]
  ELSE IF StartsWith(response_id, P_interesse) THEN [kind |-> "interest", rid |-> response_id]
  ELSE IF response_id \in {ID_aceita_reuniao, ID_prefere_whatsapp, ID_prefere_email, ID_sem_tempo} THEN [kind |-> "meeting", rid |-> response_id]
  ELSE IF StartsWith(response_id, P_horario) THEN [kind |-> "time", rid |-> response_id]
  ELSE [kind |-> "free", rid |-> <<"S", "e", "l", "e", "c", "i", "o", "n", "o", "u", ":", " ">> \o response_id]

\* a dispatch that consults the keywords before the email pattern
Dispatch_keywords_first(message) ==
  LET raw == Strip(message) IN
  IF \E i \in 1..Len(ButtonPrefixes) : StartsWith(raw, ButtonPrefixes[i])
  THEN handle_button_response(raw)
  ELSE IF map_label_to_id(raw) # None THEN handle_button_response(map_label_to_id(raw))
  ELSE IF infer_feedback_from_free_text(raw) # None
       THEN [kind |-> "feedback", rid |-> infer_feedback_from_free_text(raw)]
  ELSE IF is_email(raw) THEN [kind |-> "email", rid |-> raw]
  ELSE [kind |-> "free", rid |-> raw]

\* the handler handle_message calls for a message, and its argument
Dispatch(message) ==
  LET raw == Strip(message) IN
  IF \E i \in 1..Len(ButtonPrefixes) : StartsWith(raw, ButtonPrefixes[i])
  THEN handle_button_response(raw)
  ELSE IF map_label_to_id(raw) # None THEN handle_button_response(map_label_to_id(raw))
  ELSE IF is_email(raw) THEN [kind |-> "email", rid |-> raw]
  ELSE IF infer_feedback_from_free_text(raw) # None
       THEN [kind |-> "feedback", rid |-> infer_feedback_from_free_text(raw)]
  ELSE [kind |-> "free", rid |-> raw]

\* The messages the webhook delivers in the behaviours explored
InboundTexts ==
  { IN_gostei_muito, ID_feedback_negativo, ID_interesse_alto, ID_aceita_reuniao,
    IN_email, IN_horario_1, IN_horario_6, IN_3, IN_quanto_custa }

\* the route of each message delivered, horario_0 of the two-lead behaviours included
Routes == [t \in InboundTexts \cup {P_horario \o <<"0">>} |-> Dispatch(t)]

(***************************************************************************)
(* _has_meeting_accepted_context, _determine_conversation_stage_improved,  *)
(* _generate_improved_response and _get_fallback_response                  *)
(***************************************************************************)
has_meeting_accepted_context(chat_history) ==
  LET window == LastN(chat_history, ContextWindow) IN
  \E i \in 1..Len(window) : ContainsAny(LowerStr(window[i].message), meeting_indicators)

\* a classifier that looks at the current message before the history
stage_email_first(chat_history, current_message) ==
  IF is_email(current_message) THEN "email_fornecido"
  ELSE IF chat_history = << >> THEN "inicial"
  ELSE "conversa_livre"

determine_conversation_stage_improved(chat_history, current_message) ==
  LET recent_messages == [i \in 1..Len(LastN(chat_history, StageWindow)) |->
                            LastN(chat_history, StageWindow)[i].message]
      recent_context == LowerStr(Join(<<" ">>, recent_messages))
  IN  IF chat_history = << >> THEN "inicial"
      ELSE IF is_email(current_message) THEN "email_fornecido"
      ELSE IF Contains(recent_context, TAG_email) THEN "pos_email"
      ELSE IF Contains(recent_context, MARK_meeting_accept) THEN "pos_aceite_reuniao"
      ELSE IF Contains(recent_context, TAG_meeting_pref) THEN "pos_reuniao"
      ELSE IF Contains(recent_context, TAG_interesse) THEN "pos_interesse"
      ELSE IF Contains(recent_context, TAG_feedback) THEN "pos_feedback"
      ELSE IF \E i \in 1..Len(recent_messages) : Contains(recent_messages[i], TAG_PerguntaFeedback)
           THEN "pos_feedback_pergunta"
      ELSE "conversa_livre"

get_fallback_response(stage) ==
  IF stage \in DOMAIN fallbacks THEN fallbacks[stage] 
  ELSE <<"D", "e", "i", "x", "a", " ", "e", "u", " ", "o", "r", "g", "a", "n", "i", "z", "a", "r", " ", "i", "s", "s", "o", " ", "p", "r", "a", " ", "v", "o", "c", "e^", "!">>

\* the stages _generate_improved_response answers without the generative call
DirectResponse(stage) ==
  IF stage = "email_fornecido"
  THEN <<"E", "m", "a", "i", "l", " ", "r", "e", "c", "e", "b", "i", "d", "o", ",", " ", "A", "n", "a", "!", " ", "V", "o", "u", " ", "o", "r", "g", "a", "n", "i", "z", "a", "r", " ", "a", "s", " ", "i", "n", "f", "o", "r", "m", "a", "c,", "o~", "e", "s", " ", "e", " ", "t", "e", " ", "r", "e", "t", "o", "r", "n", "o", ".">>
  ELSE <<"T", "e", " ", "p", "a", "s", "s", "o", " ", "o", "s", " ", "h", "o", "r", "a'", "r", "i", "o", "s", " ", "d", "i", "s", "p", "o", "n", "i'", "v", "e", "i", "s", " ", "e", "m", " ", "i", "n", "s", "t", "a", "n", "t", "e", "s", "!">>

\* what asyncio.wait_for(_call_anthropic(), timeout=8) gives: a text, "" (an
\* empty answer or an exception of the client, caught), or the TimeoutError
LLMAnswers == {"text", "empty", "timeout"}
\* a call whose failure is handed on as an empty reply
call_llm_without_fallback(stage, answer) ==
  IF answer = "text"
  THEN <<"C", "l", "a", "r", "o", "!", " ", "T", "e", " ", "e", "x", "p", "l", "i", "c", "o", " ", "n", "a", " ", "r", "e", "u", "n", "i", "a~", "o", ".">>
  ELSE << >>

call_llm_result(stage, answer) ==
  IF answer = "text"
  THEN <<"C", "l", "a", "r", "o", "!", " ", "T", "e", " ", "e", "x", "p", "l", "i", "c", "o", " ", "n", "a", " ", "r", "e", "u", "n", "i", "a~", "o", ".">>
  ELSE get_fallback_response(stage)

(***************************************************************************)
(* A handler: one call of handle_message or start_post_seminar_campaign.   *)
(* It runs synchronously up to an await that suspends it (the HTTP request *)
(* of a send, the generative call) and resumes when the await returns.     *)
(* The fields up to response are its position and locals; the fields from  *)
(* reply on record what it did, and offered is the newest snapshot turn    *)
(* stored for the lead when the message arrived.                           *)
(***************************************************************************)
Idle ==
  [id |-> 0, phone |-> "", kind |-> "none", raw |-> << >>, rid |-> << >>,
   pc |-> "done", text |-> "", cont |-> "", ret |-> "", next |-> "",
   errText |-> "", errReply |-> "", email |-> << >>, slots |-> << >>,
   stage |-> "", conversation_context |-> << >>, llm |-> "no", response |-> << >>,
   reply |-> "", raised |-> FALSE, sent |-> {}, got |-> {}, wrote |-> {},
   readAll |-> FALSE, offered |-> << >>, ordinal |-> << >>, chosen |-> << >>,
   calendar |-> "no", booking |-> "no", asked |-> << >>, booked |-> << >>, touch |-> FALSE,
   interleaved |-> FALSE]

NewHandler(id, phone, kind, raw, rid) ==
  [Idle EXCEPT !.id = id, !.phone = phone, !.kind = kind, !.raw = raw, !.rid = rid,
               !.pc = "run"]

\* The state of a synchronous run: the tables w, the calendar g, the handler
\* h, and the number n of database calls the run has made
Send(r, text, cont) == [r EXCEPT !.h.pc = "send", !.h.text = text, !.h.cont = cont]
SendThenReturn(r, text, reply) ==
  [r EXCEPT !.h.pc = "send", !.h.text = text, !.h.cont = "return", !.h.ret = reply]
Return(r, reply) ==
  [r EXCEPT !.h.pc = "done", !.h.reply = reply, !.h.text = "", !.h.cont = "", !.h.ret = "",
            !.h.next = "", !.h.errText = "", !.h.errReply = ""]
\* an exception: the except branch of the enclosing try sends its text and
\* returns its reply; without a try the exception leaves handle_message
Raise(r) ==
  IF r.h.errReply = ""
  THEN [Return(r, "") EXCEPT !.h.raised = TRUE]
  ELSE SendThenReturn(r, r.h.errText, r.h.errReply)
Try(r, errText, errReply) == [r EXCEPT !.h.errText = errText, !.h.errReply = errReply]

\* the database calls cs of the run r, of which call number f of the run raises
Calls(r, cs, f) ==
  LET x == Run(r.w, cs, r.n, f) IN
  [r EXCEPT !.w = x.w, !.n = x.n, !.h.touch = TRUE,
            !.h.wrote = @ \cup {cs[i].status : i \in {j \in 1..Len(cs) :
                                   /\ cs[j].op = "update_lead_status"
                                   /\ (x.raised => j < f - r.n)}}]
CallsRaise(r, cs, f) == Run(r.w, cs, r.n, f).raised
Read(r) == [r EXCEPT !.h.touch = TRUE]

(***************************************************************************)
(* handle_feedback_response, handle_interest_response and                  *)
(* handle_meeting_response up to their send                                *)
(***************************************************************************)

\* a handler of the feedback that does not create the lead
feedback_response_without_create(r0, f) ==
  LET p == r0.h.phone
      cs == <<SaveMessage(p, "user", TAG_feedback \o r0.h.rid, << >>)>>
      r == Calls(r0, cs, f)
  IN  IF CallsRaise(r0, cs, f) THEN Raise(r)
      ELSE IF r.h.rid \in {ID_feedback_positivo, ID_feedback_bom, ID_feedback_neutro}
           THEN [Send(r, "Que bom que gostou", "status")
                   EXCEPT !.h.next = "INTERESTED", !.h.ret = "Oferta de desconto enviada"]
      ELSE SendThenReturn(r, "Obrigada pelo retorno", "Feedback negativo - enviada alternativa")

handle_feedback_response(r0, f) ==
  LET p == r0.h.phone
      cs == EnsureLead(r0.w, p) \o <<SaveMessage(p, "user", TAG_feedback \o r0.h.rid, << >>)>>
      r == Calls(r0, cs, f)
  IN  IF CallsRaise(r0, cs, f) THEN Raise(r)
      ELSE IF r.h.rid \in {ID_feedback_positivo, ID_feedback_bom, ID_feedback_neutro}
           THEN [Send(r, "Que bom que gostou", "status")
                   EXCEPT !.h.next = "INTERESTED", !.h.ret = "Oferta de desconto enviada"]
      ELSE SendThenReturn(r, "Obrigada pelo retorno", "Feedback negativo - enviada alternativa")

handle_interest_response(r0, f) ==
  LET p == r0.h.phone
      cs == <<SaveMessage(p, "user", TAG_interesse \o r0.h.rid, << >>)>>
      r == Calls(r0, cs, f)
  IN  IF CallsRaise(r0, cs, f) THEN Raise(r)
      ELSE IF r.h.rid \in {ID_interesse_alto, ID_interesse_medio}
           THEN [Send(r, "Para garantir seu desconto", "status")
                   EXCEPT !.h.next = "QUALIFIED", !.h.ret = "Proposta de reuniao enviada"]
      ELSE IF r.h.rid = ID_interesse_futuro
           THEN [Send(r, "Vou te avisar quando abrirmos novas turmas", "status")
                   EXCEPT !.h.next = "FUTURE_INTEREST", !.h.ret = "Interesse futuro registrado"]
      ELSE [Send(r, "Sem problema", "status")
              EXCEPT !.h.next = "LOST", !.h.ret = "Sem interesse - agradecimento"]

handle_meeting_response(r0, f) ==
  LET p == r0.h.phone
      cs == <<SaveMessage(p, "user", TAG_meeting_pref \o r0.h.rid, << >>)>>
      r == Calls(r0, cs, f)
  IN  IF CallsRaise(r0, cs, f) THEN Raise(r)
      ELSE IF r.h.rid = ID_aceita_reuniao
           THEN [Send(r, "Deixa eu verificar nossa agenda. Qual seu e-mail", "status")
                   EXCEPT !.h.next = "WAITING_EMAIL_FOR_SCHEDULING",
                          !.h.ret = "Aguardando email para agendamento"]
      ELSE IF r.h.rid = ID_prefere_whatsapp
           THEN [Send(r, "Te explico por aqui", "status")
                   EXCEPT !.h.next = "TRANSFERRED_WHATSAPP", !.h.ret = "WhatsApp preferido"]
      ELSE IF r.h.rid = ID_prefere_email
           THEN [Send(r, "Me passa seu melhor e-mail", "status")
                   EXCEPT !.h.next = "WAITING_EMAIL", !.h.ret = "Aguardando e-mail"]
      ELSE [Send(r, "Quando surgir um tempinho, me chama", "status")
              EXCEPT !.h.next = "FUTURE_MEETING", !.h.ret = "Sem tempo"]

(***************************************************************************)
(* _handle_email_provided and _process_scheduling_with_email up to their   *)
(* send.  cal is the answer of the calendar.                               *)
(***************************************************************************)
\* a step that offers and keeps every slot the calendar returned
process_scheduling_without_cap(r0, cal) ==
  LET r == [Try(r0, "Salvei seu email! Te retorno com os horarios.", "Erro no agendamento")
             EXCEPT !.h.calendar = IF cal.raise THEN "raise"
                                    ELSE IF cal.error THEN "error" ELSE "answered"]
  IN
  IF cal.raise THEN Raise(r)
  ELSE IF cal.slots = << >>
       THEN SendThenReturn(r, "Estou organizando nossa agenda", "Nenhum horario disponivel")
  ELSE [Send(r, "Horarios disponiveis para nossa reuniao", "snapshot")
          EXCEPT !.h.slots = cal.slots]

process_scheduling_with_email(r0, cal) ==
  LET r == [Try(r0, "Salvei seu email! Te retorno com os horarios.", "Erro no agendamento")
             EXCEPT !.h.calendar = IF cal.raise THEN "raise"
                                    ELSE IF cal.error THEN "error" ELSE "answered"]
  IN
  IF cal.raise THEN Raise(r)
  ELSE IF cal.slots = << >>
       THEN SendThenReturn(r, "Estou organizando nossa agenda", "Nenhum horario disponivel")
  ELSE [Send(r, "Horarios disponiveis para nossa reuniao", "snapshot")
          EXCEPT !.h.slots = FirstN(cal.slots, SnapshotSize)]

handle_email_provided(r00, f, read, cal) ==
  LET r0 == Try([r00 EXCEPT !.h.email = r00.h.rid],
                "Email recebido! Vou organizar isso pra voce.", "Erro ao processar email")
      p == r0.h.phone
      cs == <<SaveMessage(p, "user", TAG_email \o r0.h.email, << >>)>>
      r1 == Read(Calls(r0, cs, f))
      chat_history == get_chat_history_safe(r1.w, p, HistoryEmail, read)
      r == [r1 EXCEPT !.h.readAll = (Len(chat_history) = Len(get_chat_history(r1.w, p, HistoryEmail)))]
  IN  IF CallsRaise(r0, cs, f) THEN Raise(r1)
      ELSE IF has_meeting_accepted_context(chat_history)
           THEN process_scheduling_with_email(r, cal)
      ELSE [Send(r, "Salvei seu email. Vou te enviar as informacoes por la", "status")
              EXCEPT !.h.next = "EMAIL_PROVIDED", !.h.ret = "Email salvo - contexto geral"]

(***************************************************************************)
(* _handle_time_selection and _schedule_meeting up to the send             *)
(***************************************************************************)
\* the loop over reversed(chat_history): the last snapshot and the last
\* email_saved turn of the rows win; a snapshot that does not parse raises
RECURSIVE ScanHistory(_, _)
ScanHistory(rows, acc) ==
  IF rows = << >> \/ acc.raised THEN acc
  ELSE LET m == Head(rows) IN
       IF m.role = "system" /\ Contains(m.message, TAG_available_slots)
       THEN ScanHistory(Tail(rows),
              [acc EXCEPT !.raised = literal_eval(m.payload).raised,
                          !.found = TRUE,
                          !.available_slots = literal_eval(m.payload).value])
       ELSE IF m.role = "system" /\ Contains(m.message, TAG_email_saved)
       THEN ScanHistory(Tail(rows), [acc EXCEPT !.saved_email = RemoveAll(m.message, TAG_email_saved)])
       ELSE ScanHistory(Tail(rows), acc)


\* available_slots[slot_index] of Python: a negative index counts from the end
PyIndex(s, i) == IF i >= 0 THEN s[i + 1] ELSE s[Len(s) + i + 1]
PyIndexRaises(s, i) == i >= Len(s) \/ i < 0 - Len(s)

\* a coordinator that takes any answer of the calendar for a confirmation
meeting_ok_any_answer(booking, saveRaises) == ~saveRaises

\* whether _schedule_meeting returns True: the calendar confirmed the event and
\* save_calendar_event did not raise
meeting_ok(booking, saveRaises) == booking = "confirmed" /\ ~saveRaises

\* _schedule_meeting: the calendar is asked for the event, and the event the
\* calendar confirmed is stored; every exception is caught
schedule_meeting(r0, selected_slot, email, booking, f) ==
  LET p == r0.h.phone
      start_time == fromisoformat(selected_slot.start)
      end_time == start_time + MeetingMinutes
      ask == schedule_lead_meeting(start_time)
      event_id == Len(r0.g) + 1
      cs == <<[op |-> "save_calendar_event", phone |-> p, google_event_id |-> event_id,
               start_time |-> start_time, end_time |-> end_time, attendee_email |-> email]>>
      r1 == [r0 EXCEPT !.h.booking = booking, !.h.asked = <<ask>>]
      r2 == [Calls(r1, cs, f) EXCEPT
               !.g = Append(@, [id |-> event_id, start |-> ask.start, end |-> ask.end]),
               !.h.booked = IF CallsRaise(r1, cs, f) \/ ~r1.w.leads[p].exists THEN << >>
                            ELSE <<[google_event_id |-> event_id, start_time |-> start_time,
                                    end_time |-> end_time]>>]
  IN  [r |-> IF booking = "confirmed" THEN r2 ELSE r1,
       ok |-> meeting_ok(booking, CallsRaise(r1, cs, f))]

\* the newest snapshot turn of the lead, as it is stored
SnapshotTurns(w, p) ==
  SelectSeq(w.chat[p], LAMBDA m : m.role = "system" /\ Contains(m.message, TAG_available_slots))
LatestSnapshot(w, p) ==
  IF SnapshotTurns(w, p) = << >> THEN << >>
  ELSE SnapshotTurns(w, p)[Len(SnapshotTurns(w, p))].payload

handle_time_selection(r00, f, read, booking) ==
  LET p == r00.h.phone
      r0 == Read(Try(r00, "Deixa eu organizar isso melhor e ja te retorno!",
                     "Erro ao processar horario"))
      chat_history == get_chat_history_safe(r0.w, p, HistorySelect, read)
      scan == ScanHistory(Reversed(chat_history),
                 [raised |-> FALSE, found |-> FALSE, available_slots |-> << >>,
                  saved_email |-> None])
      available_slots == scan.available_slots
      slot_number == ParseInt(RemoveAll(r0.h.rid, P_horario))
      slot_index == slot_number[2] - 1
      r == [r0 EXCEPT !.h.readAll = (Len(chat_history) = Len(get_chat_history(r0.w, p, HistorySelect))),
                      !.h.ordinal = IF slot_number[1] THEN <<slot_number[2]>> ELSE << >>]
  IN  IF scan.raised THEN Raise(r)
      ELSE IF available_slots = << >>
           THEN SendThenReturn(r, "Deixa eu verificar os horarios de novo!",
                               "Verificando horarios novamente")
      ELSE IF ~slot_number[1] THEN Raise(r)
      ELSE IF slot_index >= Len(available_slots)
           THEN SendThenReturn(r, "Ops, esse horario nao esta mais disponivel.",
                               "Horario indisponivel")
      ELSE IF PyIndexRaises(available_slots, slot_index) THEN Raise(r)
      ELSE LET selected_slot == PyIndex(available_slots, slot_index)
               m == schedule_meeting([r EXCEPT !.h.chosen = <<selected_slot>>],
                                     selected_slot, scan.saved_email, booking, f)
           IN  IF m.ok
               THEN [Send(m.r, "Pronto! Agendado. Te enviei o convite por email.", "status")
                       EXCEPT !.h.next = "SCHEDULED", !.h.ret = "Reuniao agendada com sucesso"]
               ELSE SendThenReturn(m.r, "Deu um probleminha para agendar. Vou tentar de novo!",
                                   "Erro no agendamento")

(***************************************************************************)
(* _handle_free_conversation up to the generative call or the send         *)
(***************************************************************************)
\* after the response is known: it is stored, then sent
RespondFree(r0, response, f) ==
  LET cs == <<SaveMessage(r0.h.phone, "assistant", response, << >>)>>
      r == [Calls(r0, cs, f) EXCEPT !.h.response = response]
  IN  IF CallsRaise(r0, cs, f) THEN Raise(r) ELSE SendThenReturn(r, "response", "response")

handle_free_conversation(r00, f, read) ==
  LET p == r00.h.phone
      r0 == Try(r00, "Deixa eu organizar as informacoes aqui e ja te retorno!",
                "Deixa eu organizar as informacoes aqui e ja te retorno!")
      cs == EnsureLead(r0.w, p) \o <<SaveMessage(p, "user", r0.h.rid, << >>)>>
      r1 == Read(Calls(r0, cs, f))
      chat_history == get_chat_history_safe(r1.w, p, HistoryFree, read)
      stage == determine_conversation_stage_improved(chat_history, r0.h.rid)
      r == [r1 EXCEPT !.h.stage = stage,
                      !.h.readAll = (Len(chat_history) = Len(get_chat_history(r1.w, p, HistoryFree)))]
  IN  IF CallsRaise(r0, cs, f) THEN Raise(r1)
      ELSE IF stage \in {"email_fornecido", "pos_aceite_reuniao"} THEN RespondFree(r, DirectResponse(stage), f)
      ELSE IF ~anthropic THEN RespondFree(r, get_fallback_response(stage), f)
      ELSE [r EXCEPT !.h.pc = "llm",
                     !.h.conversation_context = Reversed(LastN(chat_history, PromptWindow))]

(***************************************************************************)
(* start_post_seminar_campaign up to the send of _send_feedback_question   *)
(***************************************************************************)
start_post_seminar_campaign(r0, f) ==
  LET cs == <<CreateLead(r0.h.phone)>>
      r == Calls(r0, cs, f)
  IN  IF CallsRaise(r0, cs, f) THEN Return(r, "False")
      ELSE Send(r, "Como foi sua experiencia?", "campaign")

(***************************************************************************)
(* What a handler does when its send returns ok                            *)
(***************************************************************************)
AfterSend(r0, ok, f) ==
  LET h == r0.h
      p == h.phone
      r == [r0 EXCEPT !.h.sent = @ \cup {h.text}, !.h.got = IF ok THEN @ \cup {h.text} ELSE @,
                      !.sends = @ + 1]
  IN  CASE h.cont = "return" -> Return(r, h.ret)
        [] h.cont = "status" ->
             LET cs == <<UpdateStatus(p, h.next)>> IN
             IF CallsRaise(r, cs, f) THEN Raise(Calls(r, cs, f))
             ELSE Return(Calls(r, cs, f), h.ret)
        [] h.cont = "snapshot" ->
             LET cs == <<SaveMessage(p, "system", TAG_available_slots, ReprSlots(h.slots)),
                         SaveMessage(p, "system", TAG_email_saved \o h.email, << >>),
                         UpdateStatus(p, "SCHEDULING")>>
             IN  IF ~ok THEN SendThenReturn(r, "Te retorno com os horarios em instantes!",
                                            "Erro ao enviar horarios")
                 ELSE IF CallsRaise(r, cs, f) THEN Raise(Calls(r, cs, f))
                 ELSE Return(Calls(r, cs, f), "Horarios enviados com email salvo")
        [] h.cont = "campaign" ->
             LET cs == <<SaveMessage(p, "assistant", MSG_PerguntaFeedback, << >>),
                         [op |-> "log_interaction", phone |-> p],
                         UpdateStatus(p, "CONTACTED")>>
             IN  IF ~ok \/ CallsRaise(r, cs, f) THEN Return(IF ok THEN Calls(r, cs, f) ELSE r, "False")
                 ELSE Return(Calls(r, cs, f), "True")

\* _check_rate_limit: a send within min_interval of the last successful send
\* to the phone returns False at once, without an await.  The sends of one
\* synchronous run happen at the same time, so they are limited together.
RECURSIVE Settle(_, _, _)
Settle(r, limited, f) ==
  IF r.h.pc = "send" /\ limited THEN Settle(AfterSend(r, FALSE, f), limited, f) ELSE r

(***************************************************************************)
(* The actions                                                             *)
(***************************************************************************)
\* the handler has database calls ahead of the await it is suspended at
Open(h) == h.pc = "llm" \/ (h.pc = "send" /\ h.cont \in {"status", "snapshot", "campaign"})

\* the synchronous run of a handler from its start
NewRun(h) == [w |-> Tables, g |-> gcal, h |-> h, n |-> 0, sends |-> 0]

Begin(h, f, read, cal, booking) ==
  CASE h.kind = "feedback" -> handle_feedback_response(NewRun(h), f)
    [] h.kind = "interest" -> handle_interest_response(NewRun(h), f)
    [] h.kind = "meeting" -> handle_meeting_response(NewRun(h), f)
    [] h.kind = "email" -> handle_email_provided(NewRun(h), f, read, cal)
    [] h.kind = "time" -> handle_time_selection(NewRun(h), f, read, booking)
    [] h.kind = "free" -> handle_free_conversation(NewRun(h), f, read)
    [] h.kind = "campaign" -> start_post_seminar_campaign(NewRun(h), f)

\* The choices of the environment in one synchronous run: the database call
\* that raises (f; 0: none), whether the rows of the history can be read (the
\* rows of one query are detached together: all of them read, or the first one
\* fails), the answers of the calendar, whether the sends are inside the
\* rate-limit interval, whether the request of the send succeeded, and the
\* answer of the generative call
NoAnswer == [raise |-> FALSE, error |-> FALSE, slots |-> << >>]
FailPoints(kind) ==
  CASE kind \in {"feedback", "free"} -> 0..4
    [] kind \in {"interest", "meeting"} -> 0..2
    [] OTHER -> 0..1
ReadChoices(kind) == IF kind \in {"email", "time", "free"} THEN {"all", "none"} ELSE {"all"}
CalendarChoices(kind) == IF kind = "email" THEN CalendarAnswers ELSE {NoAnswer}
BookingChoices(kind) == IF kind = "time" THEN BookingAnswers ELSE {"confirmed"}
LimitChoices(p, sentNow) == IF last_sent[p] \/ sentNow THEN BOOLEAN ELSE {FALSE}

\* the failures of collaborators among the choices
Bit(b) == IF b THEN 1 ELSE 0
Failures(c) ==
  Bit(c.f # 0) + Bit(c.read = "none") + Bit(c.cal.raise \/ c.cal.error) + Bit(c.booking # "confirmed")
  + Bit(c.limited) + Bit(~c.ok) + Bit(c.answer # "text")

StartChoices(h) ==
  {c \in [f : FailPoints(h.kind), read : ReadChoices(h.kind), cal : CalendarChoices(h.kind),
          booking : BookingChoices(h.kind), limited : LimitChoices(h.phone, FALSE),
          ok : {TRUE}, answer : {"text"}] : faults + Failures(c) <= MaxFaults}
SendChoices(h) ==
  {c \in [f : 0..3, read : {"all"}, cal : {NoAnswer}, booking : {"confirmed"},
          limited : BOOLEAN, ok : BOOLEAN, answer : {"text"}] :
     /\ faults + Failures(c) <= MaxFaults
     /\ c.limited => (c.ok \/ last_sent[h.phone])}
LLMChoices(h) ==
  {c \in [f : 0..1, read : {"all"}, cal : {NoAnswer}, booking : {"confirmed"},
          limited : LimitChoices(h.phone, FALSE), ok : {TRUE}, answer : LLMAnswers] :
     faults + Failures(c) <= MaxFaults}

\* a choice is made only where the run r of handler h0 meets it
Met(h0, r, c) ==
  /\ c.f <= r.n
  /\ c.limited => r.sends > Bit(h0.pc = "send")
  /\ r.h.calendar = h0.calendar => c.cal = NoAnswer
  /\ r.h.booking = h0.booking => c.booking = "confirmed"
  /\ c.read = "none" => ~r.h.readAll

\* the run r of handler h0 ends: its writes are in the tables, and the handler
\* is suspended or has returned
Publish(h0, r, c) ==
  LET h == [r.h EXCEPT !.touch = FALSE]
      others == {[x EXCEPT !.interleaved = @ \/ (r.h.touch /\ x.phone = h.phone /\ Open(x))] :
                   x \in {y \in inflight : y.id # h0.id}}
  IN  /\ Met(h0, r, c)
      /\ faults' = faults + Failures(c)
      /\ leads' = r.w.leads
      /\ chat' = r.w.chat
      /\ events' = r.w.events
      /\ gcal' = r.g
      /\ UNCHANGED probe
      /\ IF h.pc = "done"
         THEN inflight' = others /\ last' = h
         ELSE inflight' = others \cup {h} /\ UNCHANGED last

Start(h) ==
  /\ delivered < MaxDeliveries
  /\ Cardinality(inflight) < MaxInFlight
  /\ \E c \in StartChoices(h) :
        Publish(h, Settle(Begin(h, c.f, c.read, c.cal, c.booking), c.limited, c.f), c)
  /\ delivered' = delivered + 1
  /\ UNCHANGED <<last_sent, anthropic>>

\* main.py, webhook_handler: a message of phone p with text t is delivered
\* and handle_message runs up to its first await
Webhook(p, t) ==
  Start([NewHandler(delivered + 1, p, Routes[t].kind, t, Routes[t].rid)
           EXCEPT !.offered = LatestSnapshot(Tables, p)])

\* main.py, start_campaign
StartCampaign(p) ==
  Start(NewHandler(delivered + 1, p, "campaign", << >>, << >>))

\* the HTTP request of send_text_message or send_list_message returns
SendReturns(h) ==
  /\ h.pc = "send"
  /\ \E c \in SendChoices(h) :
       /\ Publish(h, Settle(AfterSend(NewRun(h), c.ok, c.f), c.limited, c.f), c)
       /\ last_sent' = IF c.ok THEN [last_sent EXCEPT ![h.phone] = TRUE] ELSE last_sent
  /\ UNCHANGED <<delivered, anthropic>>

\* asyncio.wait_for(_call_anthropic(), timeout=8) returns or times out
LLMReturns(h) ==
  /\ h.pc = "llm"
  /\ \E c \in LLMChoices(h) :
       Publish(h, Settle(RespondFree(NewRun([h EXCEPT !.llm = c.answer]),
                                     call_llm_result(h.stage, c.answer), c.f),
                         c.limited, c.f), c)
  /\ UNCHANGED <<delivered, last_sent, anthropic>>

Next ==
  \/ \E p \in Phones : \E t \in InboundTexts : Webhook(p, t)
  \/ \E p \in Phones : StartCampaign(p)
  \/ \E h \in inflight : SendReturns(h)
  \/ \E h \in inflight : LLMReturns(h)

\* no function is called directly
NoProbe == [fn |-> "none", done |-> TRUE]

\* a new deployment: no turn and no event is stored, and a phone is unknown or
\* is a lead imported from a spreadsheet (process_excel_leads calls create_lead)
ImportedLead ==
  [exists |-> TRUE, name |-> UserName, source |-> "seminario_excel", status |-> "NEW", rows |-> 1]

Init ==
  /\ leads \in [Phones -> {NoLead, ImportedLead}]
  /\ chat = [p \in Phones |-> << >>]
  /\ events = << >>
  /\ gcal = << >>
  /\ last_sent = [p \in Phones |-> FALSE]
  /\ anthropic \in BOOLEAN
  /\ inflight = {}
  /\ delivered = 0
  /\ faults = 0
  /\ last = Idle
  /\ probe = NoProbe

Spec == Init /\ [][Next]_vars

\* A database in which a lead has accepted a meeting and given an email, and
\* whose snapshot turn holds the slot times as ISO strings: the rows for which
\* _schedule_meeting calls datetime.fromisoformat(str(start_time)).  The
\* snapshot is of the first five slots of a free week.
StoredChat(snapshot) ==
  << [role |-> "user", message |-> MARK_meeting_accept, payload |-> << >>],
     [role |-> "user", message |-> TAG_email \o IN_email, payload |-> << >>],
     [role |-> "system", message |-> TAG_available_slots, payload |-> snapshot],
     [role |-> "system", message |-> TAG_email_saved \o IN_email, payload |-> << >>] >>

InitStored ==
  /\ leads = [p \in Phones |->
                [exists |-> TRUE, name |-> UserName, source |-> "pos_seminario",
                 status |-> "SCHEDULING", rows |-> 1]]
  /\ chat = [p \in Phones |-> StoredChat(IsoSlots(FirstN(get_available_slots(<< >>, DaysAhead, SlotMinutes),
                                                  SnapshotSize)))]
  /\ events = << >>
  /\ gcal = << >>
  /\ last_sent = [p \in Phones |-> FALSE]
  /\ anthropic = TRUE
  /\ inflight = {}
  /\ delivered = 0
  /\ faults = 0
  /\ last = Idle
  /\ probe = NoProbe

SpecStored == InitStored /\ [][Next]_vars

(***************************************************************************)
(* The functions called directly: get_available_slots on a calendar that   *)
(* holds the events busy, and the classifier of the stage and the check of *)
(* the meeting context on the turns stored for a lead.                     *)
(***************************************************************************)
\* events in the calendar
MaxBusy == 2
\* days of the horizon on which an event begins or ends
MaxBusyDay == 2
\* untagged turns stored before the last turns of a lead
MaxPad == 10
\* the last turns of a lead, of any kind
MaxTail == 2
\* characters of a text built from the small alphabet
MaxText == 3

\* the events().list of a day answers with orderBy = startTime; an event
\* begins and ends at a midnight of the horizon or, on its first days, at
\* 9:00, 9:15, 17:30 or 18:00
BusyInputs ==
  LET minutes == {9 * 60, 9 * 60 + 15, 17 * 60 + 30, 18 * 60}
      points == {DayStart(d) + m : d \in 1..MaxBusyDay, m \in minutes}
                  \cup {DayStart(d) : d \in 1..(DaysAhead + 1)}
      spans == {e \in [start : points, end : points] : e.start < e.end}
      lists == UNION {[1..n -> spans] : n \in 0..MaxBusy}
  IN  {b \in lists : \A i \in 1..(Len(b) - 1) : b[i].start <= b[i + 1].start}

\* the turns the handlers store: a free text, the tagged user turns and the
\* marker of the feedback question
Turns ==
  { [role |-> "user", message |-> IN_quanto_custa, payload |-> << >>],
    [role |-> "user", message |-> TAG_feedback \o ID_feedback_positivo, payload |-> << >>],
    [role |-> "user", message |-> TAG_interesse \o ID_interesse_alto, payload |-> << >>],
    [role |-> "user", message |-> TAG_meeting_pref \o ID_aceita_reuniao, payload |-> << >>],
    [role |-> "user", message |-> TAG_meeting_pref \o ID_prefere_whatsapp, payload |-> << >>],
    [role |-> "user", message |-> TAG_email \o IN_email, payload |-> << >>],
    [role |-> "assistant", message |-> MSG_PerguntaFeedback, payload |-> << >>] }

\* the turns of a lead, oldest first
HistoryInputs ==
  LET plain == [role |-> "user", message |-> IN_quanto_custa, payload |-> << >>]
  IN  {[i \in 1..k |-> plain] \o tail :
         k \in 0..MaxPad, tail \in UNION {[1..n -> Turns] : n \in 0..MaxTail}}

\* the texts handed to handle_message: the labels of _BTN_MAP, the phrases
\* around a label, the row ids of the lists, email addresses, and every
\* text of up to MaxText characters of a small alphabet
LabelInputs ==
  LET alphabet == {"A", "b", "a~", "comb~", "!", " ", "TAB", "emoji:smile"}
  IN  {BTN_MAP[i][1] : i \in 1..Len(BTN_MAP)}
      \cup {IN_gostei_muito, <<"emoji:smile", " ">> \o IN_gostei_muito, IN_quanto_custa, IN_3, <<"1">>,
            <<"n", "a", "o", " ", "t", "e", "n", "h", "o", " ", "i", "n", "t", "e", "r", "e", "s", "s", "e", " ", "n", "e", "n", "h", "u", "m">>,
            <<"n", "a", "o", " ", "g", "o", "s", "t", "e", "i", " ", "d", "e", " ", "n", "a", "d", "a">>,
            <<"g", "o", "s", "t", "e", "i", " ", "!", " ", "m", "u", "i", "t", "o">>,
            IN_email, <<"o", "t", "i", "m", "o", "@", "x", ".", "c", "o">>, <<"g", "o", "s", "t", "e", "i", "@", "o", "k", ".", "c", "o">>,
            ID_feedback_positivo, ID_interesse_alto, ID_aceita_reuniao, ID_sem_tempo,
            ID_feedback_bom, ID_feedback_neutro, ID_feedback_negativo, ID_interesse_medio,
            ID_interesse_futuro, ID_sem_interesse, ID_prefere_whatsapp, ID_prefere_email,
            IN_horario_1, <<"f", "e", "e", "d", "b", "a", "c", "k", "_", "r", "u", "i", "m">>, <<"s", "e", "m", "_", "n", "o", "m", "e", "@", "x", ".", "c", "o">>}
      \cup UNION {[1..n -> alphabet] : n \in 0..MaxText}

\* calendar_service.get_available_slots(days_ahead, duration_minutes) with a
\* connected service
CallGetAvailableSlots ==
  /\ probe.fn = "get_available_slots" /\ ~probe.done
  /\ probe' = [probe EXCEPT
                 !.done = TRUE,
                 !.slots = get_available_slots(probe.busy, probe.days_ahead,
                                               probe.duration_minutes)]
  /\ UNCHANGED <<leads, chat, events, gcal, last_sent, anthropic, inflight, delivered,
                 faults, last>>

\* _handle_free_conversation reads the history and classifies the stage;
\* _handle_email_provided reads it and checks the meeting context
CallClassifier ==
  /\ probe.fn = "stage" /\ ~probe.done
  /\ LET chat_history == get_chat_history_safe(Tables, probe.phone, HistoryFree, "all")
         email_history == get_chat_history_safe(Tables, probe.phone, HistoryEmail, "all")
     IN  probe' = [probe EXCEPT
                     !.done = TRUE,
                     !.chat_history = chat_history,
                     !.recent = LastN(chat_history, StageWindow),
                     !.stage = determine_conversation_stage_improved(chat_history,
                                                                     probe.message),
                     !.context = LastN(email_history, ContextWindow),
                     !.accepted = has_meeting_accepted_context(email_history)]
  /\ UNCHANGED <<leads, chat, events, gcal, last_sent, anthropic, inflight, delivered,
                 faults, last>>

\* handle_message up to the call of a handler: the text is stripped and
\* resolved (prefix, map_label_to_id, _is_email, infer_feedback_from_free_text);
\* key is _normalize(label), again _normalize(key), and intents the ids of the
\* entries of _BTN_MAP that the membership test of map_label_to_id accepts
CallDispatch ==
  /\ probe.fn = "handle_message" /\ ~probe.done
  /\ LET raw == Strip(probe.label)
         key == normalize(raw)
     IN  probe' = [probe EXCEPT
                     !.done = TRUE,
                     !.key = key,
                     !.again = normalize(key),
                     !.id = map_label_to_id(raw),
                     !.intents = {BTN_MAP[i][2] : i \in BtnSubstring(key)},
                     !.inferred = infer_feedback_from_free_text(raw),
                     !.route = <<Dispatch(probe.label)>>]
  /\ UNCHANGED <<leads, chat, events, gcal, last_sent, anthropic, inflight, delivered,
                 faults, last>>

\* a handler that takes an ACK for a message
webhook_handler_without_ack_check(payload, ignore_from_me) ==
  LET phone == IF payload.jid_server \in {"@s.whatsapp.net", "@g.us"}
               THEN <<payload.jid_user>> ELSE << >>
      message_text ==
        IF payload.selectedRowId # "" THEN payload.selectedRowId
        ELSE IF payload.messageType = "conversation" THEN payload.conversation
        ELSE IF payload.messageType = "extendedTextMessage" THEN payload.text
        ELSE payload.caption
  IN  IF payload.fromMe /\ ignore_from_me
      THEN [status |-> "ignored", reason |-> "from_me", call |-> << >>]
      ELSE IF message_text = "" \/ phone \in {<< >>, <<"">>}
      THEN [status |-> "ignored", reason |-> "no_text_or_phone", call |-> << >>]
      ELSE [status |-> "processed", reason |-> "",
            call |-> <<[phone |-> phone[1], message |-> message_text]>>]

\* main.py, webhook_handler up to the call of handle_message.  The payload is
\* the JSON of the request: jid_user and jid_server are the two parts of the
\* jid (_extract_phone keeps the digits of a jid of a user or of a group, and
\* finds no phone in another jid when no participant is given: << >> is None),
\* selectedRowId the id of a list or button reply, conversation and text the
\* texts of the two text types, caption the caption of an image or a video;
\* "" is a key that is absent or empty.  call is the call of handle_message.
webhook_handler(payload, ignore_from_me) ==
  LET phone == IF payload.jid_server \in {"@s.whatsapp.net", "@g.us"}
               THEN <<payload.jid_user>> ELSE << >>
      message_text ==
        IF payload.selectedRowId # "" THEN payload.selectedRowId
        ELSE IF payload.messageType = "conversation" THEN payload.conversation
        ELSE IF payload.messageType = "extendedTextMessage" THEN payload.text
        ELSE payload.caption
  IN  IF payload.messageType = "message.ack"
      THEN [status |-> "ignored", reason |-> "ack", call |-> << >>]
      ELSE IF payload.fromMe /\ ignore_from_me
      THEN [status |-> "ignored", reason |-> "from_me", call |-> << >>]
      ELSE IF message_text = "" \/ phone \in {<< >>, <<"">>}
      THEN [status |-> "ignored", reason |-> "no_text_or_phone", call |-> << >>]
      ELSE [status |-> "processed", reason |-> "",
            call |-> <<[phone |-> phone[1], message |-> message_text]>>]

\* a request of POST /webhook
CallWebhook ==
  /\ probe.fn = "webhook_handler" /\ ~probe.done
  /\ probe' = [probe EXCEPT !.done = TRUE,
                            !.response = <<webhook_handler(probe.payload, probe.IGNORE_FROM_ME)>>]
  /\ UNCHANGED <<leads, chat, events, gcal, last_sent, anthropic, inflight, delivered,
                 faults, last>>

NextPure == CallGetAvailableSlots \/ CallClassifier \/ CallDispatch \/ CallWebhook

InitPure ==
  /\ leads = [p \in Phones |-> ImportedLead]
  /\ events = << >>
  /\ gcal = << >>
  /\ last_sent = [p \in Phones |-> FALSE]
  /\ anthropic = FALSE
  /\ inflight = {}
  /\ delivered = 0
  /\ faults = 0
  /\ last = Idle
  /\ \/ /\ chat = [p \in Phones |-> << >>]
        /\ probe \in [fn : {"get_available_slots"}, done : {FALSE}, busy : BusyInputs,
                      days_ahead : 1..DaysAhead,
                      duration_minutes : {SlotMinutes, SlotMinutes + 15, CalendarMinutes},
                      slots : {<< >>}]
     \/ /\ chat \in [Phones -> HistoryInputs]
        /\ probe \in [fn : {"stage"}, done : {FALSE}, phone : Phones,
                      message : {IN_email, IN_quanto_custa}, chat_history : {<< >>},
                      recent : {<< >>}, stage : {""}, context : {<< >>},
                      accepted : {FALSE}]
     \/ /\ chat = [p \in Phones |-> << >>]
        /\ probe \in [fn : {"handle_message"}, done : {FALSE}, label : LabelInputs,
                      key : {<< >>}, again : {<< >>}, id : {None}, intents : {{}},
                      inferred : {None}, route : {<< >>}]
     \/ /\ chat = [p \in Phones |-> << >>]
        /\ probe \in [fn : {"webhook_handler"}, done : {FALSE}, IGNORE_FROM_ME : BOOLEAN,
                      payload : [messageType : {"message.ack", "conversation",
                                                "extendedTextMessage", "imageMessage"},
                                 fromMe : BOOLEAN,
                                 jid_user : {"5511", ""},
                                 jid_server : {"@s.whatsapp.net", "@g.us", "@lid", ""},
                                 selectedRowId : {"", "feedback_positivo"},
                                 conversation : {"", "Gostei muito!!"},
                                 text : {"", "a@b.co"},
                                 caption : {"", "3"}],
                      response : {<< >>}]

SpecPure == InitPure /\ [][NextPure]_vars

(***************************************************************************)
(* Two leads.  The handlers of two phones interleave at their awaits; one  *)
(* LeadAgent, one DatabaseManager and one WhatsAppService serve them both. *)
(* A phone is a lead imported from a spreadsheet or a lead that has been   *)
(* offered the slots of a free week.                                       *)
(***************************************************************************)
InitPair ==
  LET pair == Phones \cup {"5522"}
      snapshot == IsoSlots(FirstN(get_available_slots(<< >>, DaysAhead, SlotMinutes), SnapshotSize))
  IN  /\ \E offered \in SUBSET pair :
           /\ leads = [p \in pair |->
                         IF p \in offered
                         THEN [ImportedLead EXCEPT !.source = "pos_seminario", !.status = "SCHEDULING"]
                         ELSE ImportedLead]
           /\ chat = [p \in pair |-> IF p \in offered THEN StoredChat(snapshot) ELSE << >>]
      /\ events = << >>
      /\ gcal = << >>
      /\ last_sent = [p \in pair |-> FALSE]
      /\ anthropic = TRUE
      /\ inflight = {}
      /\ delivered = 0
      /\ faults = 0
      /\ last = Idle
      /\ probe = NoProbe

NextPair ==
  \/ \E p \in DOMAIN leads : \E t \in {IN_gostei_muito, IN_horario_1, P_horario \o <<"0">>, IN_quanto_custa} :
         Webhook(p, t)
  \/ \E p \in DOMAIN leads : StartCampaign(p)
  \/ \E h \in inflight : SendReturns(h)
  \/ \E h \in inflight : LLMReturns(h)

SpecPair == InitPair /\ [][NextPair]_vars

(***************************************************************************)
(* The properties                                                          *)
(***************************************************************************)
RetryText == "Deu um probleminha para agendar. Vou tentar de novo!"

C2_StatusNeverRegresses ==
  [][\A p \in Phones :
       LET Rank(status) ==
             CASE status = "NEW" -> 1
               [] status = "CONTACTED" -> 2
               [] status = "INTERESTED" -> 3
               [] status \in {"QUALIFIED", "FUTURE_INTEREST", "LOST"} -> 4
               [] status \in {"WAITING_EMAIL_FOR_SCHEDULING", "WAITING_EMAIL",
                              "TRANSFERRED_WHATSAPP", "FUTURE_MEETING"} -> 5
               [] status \in {"EMAIL_PROVIDED", "SCHEDULING"} -> 6
               [] status = "SCHEDULED" -> 7
               [] OTHER -> 0
       IN  Rank(leads'[p].status) >= Rank(leads[p].status)]_vars

\* C3: while a handler is suspended between its first access to the records
\* of a lead and its last write to them, no other handler reads or writes
\* the records of that lead.
C3_HandlersOfALeadNeverInterleave == \A h \in inflight \cup {last} : ~h.interleaved

\* C4: when the calendar gives no confirmation or raises during a slot
\* selection, the handler writes no status, stores no BookedMeeting, hands the
\* retry text to the transport and returns "Erro no agendamento" without an
\* exception.
C4_FailedBookingChangesNothing ==
  \A h \in inflight \cup {last} :
     (h.kind = "time" /\ h.booking \in {"none", "raise"}) =>
        /\ h.wrote = {}
        /\ h.booked = << >>
        /\ ~h.raised
        /\ IF h.pc = "done"
           THEN h.reply = "Erro no agendamento" /\ RetryText \in h.sent
           ELSE h.pc = "send" /\ h.text = RetryText /\ h.cont = "return"
                /\ h.ret = "Erro no agendamento"

\* a selection whose booking got no confirmation has returned
C4_Witness ==
  /\ last.kind = "time" /\ last.booking = "none" /\ last.chosen # << >>
  /\ last.reply = "Erro no agendamento" /\ RetryText \in last.got
  /\ events = << >>

C6_OrdinalBeyondSnapshotIsRejected ==
  (/\ last.kind = "time" /\ last.readAll /\ last.offered # << >>
   /\ last.ordinal # << >> /\ last.ordinal[1] > Len(last.offered)) =>
     /\ last.reply = "Horario indisponivel"
     /\ "Ops, esse horario nao esta mais disponivel." \in last.sent
     /\ last.booking = "no" /\ last.booked = << >> /\ last.wrote = {} /\ ~last.raised

\* C7: a selection of ordinal N within the newest stored snapshot resolves to
\* the N-th slot of that snapshot and a booking is asked for at its start.
C7_SelectionResolvesToOfferedSlot ==
  \A h \in inflight \cup {last} :
     (/\ h.kind = "time" /\ h.readAll /\ h.ordinal # << >>
      /\ h.ordinal[1] >= 1 /\ h.ordinal[1] <= Len(h.offered)) =>
        /\ h.chosen # << >>
        /\ h.chosen[1].start[2] = h.offered[h.ordinal[1]].start[2]
        /\ h.booking # "no"
        /\ h.asked[1].start = h.offered[h.ordinal[1]].start[2]

\* C8: the text "3" that arrives when a snapshot of five slots is stored is a
\* slot selection: the third slot is chosen and a booking is asked for.
C8_PlainNumberSelectsSlot ==
  \A h \in inflight \cup {last} :
     (h.raw = IN_3 /\ Len(h.offered) = SnapshotSize) =>
        /\ h.kind = "time"
        /\ h.readAll => (h.chosen = <<h.offered[3]>> /\ h.booking # "no")

C10_HandleMessageNeverRaises ==
  (last.kind \notin {"none", "campaign"}) => ~last.raised

\* C11: once a handler of an inbound message has returned, a Lead row exists
\* for its phone, whatever the message was routed to; stated here for the
\* behaviours in which no collaborator has failed.
C11_LeadExistsAfterFirstMessage ==
  (last.kind \notin {"none", "campaign"} /\ faults = 0) => leads[last.phone].exists

C16_ErrorToldApartFromNoAvailability ==
  [][(/\ last.kind = "email" /\ last'.kind = "email"
      /\ last.phone = last'.phone
      /\ last.calendar = "answered" /\ last.slots = << >>
      /\ last'.calendar = "error")
     => (last'.sent # last.sent \/ last'.reply # last.reply \/ last'.wrote # last.wrote)]_vars

\* C17: the classifier respects the order of the rules (initial;
\* email_provided; post_feedback_prompt; post_email; post_meeting_accept;
\* post_meeting_pref; post_interest; post_feedback; free_conversation): when
\* the marker of rule k is present in the turns of the lead and the current
\* message, the stage returned is not the outcome of a rule after k.  Stated
\* for leads whose turns all fit in the window of the classifier.
C17_PriorityOrderRespected ==
  (probe.fn = "stage" /\ probe.done /\ Len(chat[probe.phone]) <= 6) =>
     LET turns == chat[probe.phone]
         Tagged(i, tag) == turns[i].role = "user" /\ StartsWith(turns[i].message, tag)
         Marker(k) ==
           CASE k = 1 -> turns = << >>
             [] k = 2 -> probe.message = IN_email
             [] k = 3 -> \E i \in 1..Len(turns) :
                            /\ turns[i].role = "assistant"
                            /\ StartsWith(turns[i].message, TAG_PerguntaFeedback)
                            /\ \A j \in (i + 1)..Len(turns) : ~Tagged(j, TAG_feedback)
             [] k = 4 -> \E i \in 1..Len(turns) : Tagged(i, TAG_email)
             [] k = 5 -> \E i \in 1..Len(turns) : Tagged(i, MARK_meeting_accept)
             [] k = 6 -> \E i \in 1..Len(turns) :
                            Tagged(i, TAG_meeting_pref) /\ ~Tagged(i, MARK_meeting_accept)
             [] k = 7 -> \E i \in 1..Len(turns) : Tagged(i, TAG_interesse)
             [] k = 8 -> \E i \in 1..Len(turns) : Tagged(i, TAG_feedback)
             [] OTHER -> TRUE
         Rank(stage) ==
           CASE stage = "inicial" -> 1
             [] stage = "email_fornecido" -> 2
             [] stage = "pos_feedback_pergunta" -> 3
             [] stage = "pos_email" -> 4
             [] stage = "pos_aceite_reuniao" -> 5
             [] stage = "pos_reuniao" -> 6
             [] stage = "pos_interesse" -> 7
             [] stage = "pos_feedback" -> 8
             [] OTHER -> 9
     IN  \A k \in 1..9 : Marker(k) => Rank(probe.stage) <= k

\* C18: when several tagged user turns are stored, the newest one determines
\* the stage.  Stated for leads whose turns all fit in the window of the
\* classifier, with no marker of the feedback question among them, and a
\* current message that is not an email.
C18_NewestTaggedTurnDecides ==
  (/\ probe.fn = "stage" /\ probe.done /\ probe.message # IN_email
   /\ Len(chat[probe.phone]) <= 6
   /\ \A i \in 1..Len(chat[probe.phone]) : chat[probe.phone][i].role = "user") =>
     LET turns == chat[probe.phone]
         tags == {TAG_email, TAG_meeting_pref, TAG_interesse, TAG_feedback}
         IsTagged(i) == \E tag \in tags : StartsWith(turns[i].message, tag)
         StageOf(m) ==
           CASE StartsWith(m, TAG_email) -> "pos_email"
             [] StartsWith(m, MARK_meeting_accept) -> "pos_aceite_reuniao"
             [] StartsWith(m, TAG_meeting_pref) -> "pos_reuniao"
             [] StartsWith(m, TAG_interesse) -> "pos_interesse"
             [] OTHER -> "pos_feedback"
     IN  \A i \in 1..Len(turns) :
            (IsTagged(i) /\ \A j \in (i + 1)..Len(turns) : ~IsTagged(j))
            => probe.stage = StageOf(turns[i].message)

\* C19: the window of the classifier (6 turns) and the window of the check of
\* the meeting context (10 turns) are the newest turns stored for the lead:
\* each is the suffix of the turns of the lead of its length, in the order
\* stored or newest first, so each holds the newest turn.
C19_WindowsAreNewestTurns ==
  (probe.fn = "stage" /\ probe.done) =>
     LET turns == chat[probe.phone]
         Suffix(n) == IF Len(turns) <= n THEN turns
                      ELSE SubSeq(turns, Len(turns) - n + 1, Len(turns))
         Rev(s) == [i \in 1..Len(s) |-> s[Len(s) + 1 - i]]
     IN  /\ probe.recent \in {Suffix(6), Rev(Suffix(6))}
         /\ probe.context \in {Suffix(10), Rev(Suffix(10))}

\* C20: with an empty history the classifier returns "inicial", whatever the
\* current message is, an email address included.
C20_EmptyHistoryIsInitial ==
  (probe.fn = "stage" /\ probe.done /\ probe.chat_history = << >>) => probe.stage = "inicial"

\* the classifier was called with no history and a current message that is an
\* email address
C20_Witness ==
  /\ probe.fn = "stage" /\ probe.done
  /\ probe.chat_history = << >>
  /\ is_email(probe.message)
  /\ probe.stage = "inicial"

\* C21: an email address that arrives from a lead whose stored turns hold the
\* turn of an accepted meeting, however many turns the lead has, leads to the
\* call of get_available_slots: once the email turn is saved, the check of the
\* meeting context on the history read answers yes.
C21_EmailAfterAcceptanceInvokesEngine ==
  (/\ probe.fn = "stage" /\ probe.done
   /\ chat[probe.phone] # << >>
   /\ chat[probe.phone][Len(chat[probe.phone])] =
        [role |-> "user", message |-> TAG_email \o IN_email, payload |-> << >>]
   /\ \E i \in 1..Len(chat[probe.phone]) :
         /\ chat[probe.phone][i].role = "user"
         /\ chat[probe.phone][i].message = MARK_meeting_accept)
  => probe.accepted

\* C22: when the handler of a message that resolves to a feedback returns and
\* no collaborator has failed, the lead exists and the feedback turn is stored;
\* for a positive, good or neutral feedback the discount list was delivered
\* and the status of the lead is INTERESTED; for a negative one only the
\* alternative text was sent and the handler wrote no status.
C22_FeedbackIntentHandled ==
  [][(last' # last /\ last'.kind = "feedback" /\ faults' = 0) =>
       LET h == last'
           p == h.phone
       IN  /\ leads'[p].exists
           /\ \E i \in 1..Len(chat'[p]) :
                 chat'[p][i] = [role |-> "user", message |-> <<"f", "e", "e", "d", "b", "a", "c", "k", ":">> \o h.rid,
                                payload |-> << >>]
           /\ IF h.rid \in {ID_feedback_positivo, ID_feedback_bom, ID_feedback_neutro}
              THEN /\ "Que bom que gostou" \in h.got
                   /\ h.reply = "Oferta de desconto enviada"
                   /\ leads'[p].status = "INTERESTED"
              ELSE /\ h.sent = {"Obrigada pelo retorno"}
                   /\ h.wrote = {}]_vars

\* "Gostei muito!!" was the first message of a phone with no Lead row: the
\* lead was created by the handler, holds the one feedback turn and is
\* INTERESTED
C22_Witness ==
  /\ last.kind = "feedback" /\ last.raw = IN_gostei_muito /\ last.rid = ID_feedback_positivo
  /\ delivered = 1 /\ faults = 0
  /\ leads[last.phone] = [exists |-> TRUE, name |-> UserName, source |-> "pos_seminario",
                          status |-> "INTERESTED", rows |-> 1]
  /\ Len(chat[last.phone]) = 1
  /\ "Que bom que gostou" \in last.got

\* C23: for every entry (label, intent) of _BTN_MAP, map_label_to_id(label)
\* is the intent of the entry.
C23_TableLabelsMapToTheirIntent ==
  (probe.fn = "handle_message" /\ probe.done) =>
     \A i \in 1..Len(BTN_MAP) :
        probe.label = BTN_MAP[i][1] => probe.id = BTN_MAP[i][2]

\* the label "gostei", which is also a part of the earlier label "gostei
\* muito", was mapped to feedback_bom
C23_Witness ==
  /\ probe.fn = "handle_message" /\ probe.done
  /\ probe.label = <<"g", "o", "s", "t", "e", "i">>
  /\ probe.id = ID_feedback_bom

\* C24: the table is unambiguous under the membership test of map_label_to_id
\* (the normalized label of the entry is in the normalized text, or the text in
\* it): no text is matched by two entries of different intents, so "nao tenho
\* interesse nenhum" is not given an interest intent and "nao gostei de nada"
\* is not given a feedback of somebody who liked the seminar.
C24_TableIsUnambiguous ==
  (probe.fn = "handle_message" /\ probe.done) =>
     /\ Cardinality(probe.intents) <= 1
     /\ probe.label = <<"n", "a", "o", " ", "t", "e", "n", "h", "o", " ", "i", "n", "t", "e", "r", "e", "s", "s", "e", " ", "n", "e", "n", "h", "u", "m">>
          => probe.id \notin {ID_interesse_alto, ID_interesse_medio, ID_interesse_futuro}
     /\ probe.label = <<"n", "a", "o", " ", "g", "o", "s", "t", "e", "i", " ", "d", "e", " ", "n", "a", "d", "a">>
          => probe.id \notin {ID_feedback_positivo, ID_feedback_bom}

\* C25: _normalize is idempotent, _normalize(_normalize(x)) = _normalize(x)
\* for every text x, and the empty text gives the empty text.
C25_NormalizeIsIdempotent ==
  (probe.fn = "handle_message" /\ probe.done) =>
     /\ probe.again = probe.key
     /\ probe.label = << >> => probe.key = << >>

\* "gostei ! muito", in which a character that is removed stands between two
\* spaces, was normalized to "gostei muito", and that to itself
C25_Witness ==
  /\ probe.fn = "handle_message" /\ probe.done
  /\ probe.label = <<"g", "o", "s", "t", "e", "i", " ", "!", " ", "m", "u", "i", "t", "o">>
  /\ probe.key = <<"g", "o", "s", "t", "e", "i", " ", "m", "u", "i", "t", "o">>
  /\ probe.again = probe.key

\* C26: handle_message resolves a text in a fixed order: a text that begins
\* with a prefix of a button id goes to _handle_button_response as it is,
\* whatever the table gives for it; and a text that is an email address, has
\* no such prefix and no entry in the table, goes to _handle_email_provided,
\* whatever infer_feedback_from_free_text gives for it.
C26_DispatchPrecedence ==
  (probe.fn = "handle_message" /\ probe.done) =>
     LET raw == Strip(probe.label)
         prefixes == {<<"f", "e", "e", "d", "b", "a", "c", "k", "_">>,
                      <<"i", "n", "t", "e", "r", "e", "s", "s", "e", "_">>,
                      <<"a", "c", "e", "i", "t", "a", "_">>,
                      <<"p", "r", "e", "f", "e", "r", "e", "_">>,
                      <<"s", "e", "m", "_">>,
                      <<"h", "o", "r", "a", "r", "i", "o", "_">>}
         prefixed == \E x \in prefixes : StartsWith(raw, x)
     IN  /\ prefixed => probe.route = <<handle_button_response(raw)>>
         /\ (~prefixed /\ probe.id = None /\ is_email(raw))
              => probe.route = <<[kind |-> "email", rid |-> raw]>>

\* "otimo@x.co", for which the keywords give a positive feedback, went to the
\* email handler
C26_Witness ==
  /\ probe.fn = "handle_message" /\ probe.done
  /\ probe.label = <<"o", "t", "i", "m", "o", "@", "x", ".", "c", "o">>
  /\ probe.inferred = ID_feedback_positivo
  /\ probe.route = <<[kind |-> "email", rid |-> probe.label]>>

\* C27: the text of a system turn (the snapshot of the slots, the carrier of
\* the saved email) is in no text sent to the user and in no conversation
\* context handed to the generative call that writes a reply.
C27_SystemTurnsNeverRendered ==
  \A h \in inflight \cup {last} :
     /\ \A i \in 1..Len(h.conversation_context) : h.conversation_context[i].role # "system"
     /\ \A p \in Phones : \A i \in 1..Len(chat[p]) :
           (chat[p][i].role = "system" /\ h.response # << >>) =>
              ~Contains(h.response, chat[p][i].message)

\* C28: when the generative call times out, raises or answers with an empty
\* text, or when no API key is configured, the free-conversation handler still
\* returns, and what it stored, sent and returned is the scripted fallback of
\* the stage it classified, a text that depends on the stage (and the name of
\* the lead) only.  Stated for the behaviours in which nothing else fails.
C28_FallbackWhenGenerationFails ==
  [][(/\ last' # last /\ last'.kind = "free"
      /\ last'.stage \notin {"email_fornecido", "pos_aceite_reuniao"}
      /\ \/ last'.llm \in {"empty", "timeout"} /\ faults' = 1
         \/ ~anthropic /\ faults' = 0)
     => /\ ~last'.raised
        /\ last'.response =
             (CASE last'.stage = "inicial" -> fallbacks.inicial
                [] last'.stage = "pos_feedback" -> fallbacks.pos_feedback
                [] last'.stage = "pos_interesse" -> fallbacks.pos_interesse
                [] last'.stage = "pos_reuniao" -> fallbacks.pos_reuniao
                [] last'.stage = "conversa_livre" -> fallbacks.conversa_livre
                [] OTHER -> <<"D", "e", "i", "x", "a", " ", "e", "u", " ", "o", "r", "g", "a", "n", "i", "z", "a", "r", " ", "i", "s", "s", "o", " ", "p", "r", "a", " ", "v", "o", "c", "e^", "!">>)
        /\ last'.got = {"response"} /\ last'.reply = "response"
        /\ chat'[last'.phone] # << >>
        /\ \E i \in 1..Len(chat'[last'.phone]) :
              chat'[last'.phone][i] = [role |-> "assistant", message |-> last'.response,
                                       payload |-> << >>]]_vars

\* the generative call of a free-conversation handler timed out, and the
\* handler returned after it sent the fallback of its stage
C28_Witness ==
  /\ last.kind = "free" /\ last.llm = "timeout" /\ faults = 1
  /\ last.stage = "conversa_livre"
  /\ last.response = fallbacks.conversa_livre
  /\ last.got = {"response"} /\ last.reply = "response"

\* C29: create_lead is idempotent on the phone: whatever handlers and campaign
\* starts have run, interleaved or not, a phone has at most one row in leads;
\* a lead that exists keeps its name and its source and is never set back to
\* NEW; and the start of a campaign for a lead that exists, which calls
\* create_lead again, leaves the lead as it is.
C29_CreateLeadIsIdempotent ==
  [][\A p \in Phones :
       /\ leads'[p].rows = (IF leads'[p].exists THEN 1 ELSE 0)
       /\ leads[p].exists =>
            /\ leads'[p].exists
            /\ leads'[p].name = leads[p].name
            /\ leads'[p].source = leads[p].source
            /\ leads[p].status # "NEW" => leads'[p].status # "NEW"
            /\ (\E h \in inflight' \cup {last'} :
                   /\ h.id = delivered + 1 /\ delivered' = delivered + 1
                   /\ h.kind = "campaign" /\ h.phone = p)
               => leads'[p] = leads[p]]_vars

\* a campaign was started for an imported lead after its feedback handler had
\* returned: the lead is still the one row, imported and INTERESTED
C29_Witness ==
  /\ last.kind = "feedback" /\ last.id = 1 /\ delivered = 2
  /\ \E h \in inflight :
        /\ h.kind = "campaign" /\ h.id = 2 /\ h.pc = "send" /\ ~h.interleaved
        /\ h.phone = last.phone
  /\ leads[last.phone] = [exists |-> TRUE, name |-> UserName, source |-> "seminario_excel",
                          status |-> "INTERESTED", rows |-> 1]

\* C30: under every interleaving of the handlers of two leads, a step of a
\* handler (a message, a button or a campaign start, up to its next await)
\* changes the lead row, the turns, the bookings and the rate-limit mark of
\* no phone but the handler's own.
C30_HandlersTouchOnlyTheirLead ==
  [][LET moved == (inflight' \cup {last'}) \ (inflight \cup {last})
         bookings(ev, p) == SelectSeq(ev, LAMBDA e : e.phone = p)
     IN  \A p \in DOMAIN leads :
           (\/ leads'[p] # leads[p]
            \/ chat'[p] # chat[p]
            \/ bookings(events', p) # bookings(events, p)
            \/ last_sent'[p] # last_sent[p])
           => /\ moved # {}
              /\ \A h \in moved : h.phone = p]_vars

\* the handler of one lead has booked a meeting and returned while the
\* other lead, with turns and a send of its own, is left as it was offered
C30_Witness ==
  /\ Cardinality(DOMAIN leads) = 2
  /\ last.kind = "time" /\ last.reply = "Reuniao agendada com sucesso"
  /\ \E e \in 1..Len(events) : events[e].phone = last.phone
  /\ \E q \in DOMAIN leads \ {last.phone} :
        /\ leads[q].status = "INTERESTED" /\ last_sent[q]
        /\ \A e \in 1..Len(events) : events[e].phone # q

\* C31: the webhook ignores every payload that is an ACK, that the agent sent
\* itself while IGNORE_FROM_ME is set, or from which no text or no phone can
\* be extracted: the response is "ignored", handle_message is not called, and
\* no lead, turn, status or outbound message follows from the request.
C31_WebhookIgnoresUnprocessablePayloads ==
  [][(probe.fn = "webhook_handler" /\ ~probe.done /\ probe'.done)
     => LET payload == probe.payload
            no_text == /\ payload.selectedRowId = ""
                       /\ payload.messageType = "conversation" => payload.conversation = ""
                       /\ payload.messageType = "extendedTextMessage" => payload.text = ""
                       /\ payload.messageType \notin {"conversation", "extendedTextMessage"}
                            => payload.caption = ""
            no_phone == payload.jid_user = "" \/ payload.jid_server \notin {"@s.whatsapp.net", "@g.us"}
        IN  (\/ payload.messageType = "message.ack"
             \/ payload.fromMe /\ probe.IGNORE_FROM_ME
             \/ no_text
             \/ no_phone)
            => /\ probe'.response[1].status = "ignored"
               /\ probe'.response[1].call = << >>
               /\ UNCHANGED <<leads, chat, events, gcal, last_sent, inflight, last>>]_vars

\* an ACK that carries the id of a list row and the jid of a user was ignored
C31_Witness ==
  /\ probe.fn = "webhook_handler" /\ probe.done
  /\ probe.payload.messageType = "message.ack"
  /\ probe.payload.selectedRowId = "feedback_positivo"
  /\ probe.payload.jid_user = "5511" /\ probe.payload.jid_server = "@s.whatsapp.net"
  /\ ~probe.payload.fromMe
  /\ probe.response = <<[status |-> "ignored", reason |-> "ack", call |-> << >>]>>


\* C32: start_post_seminar_campaign returns True only when the list of the
\* feedback question was delivered, and returns True when it was delivered
\* and nothing raised; when it returns True the marker turn of the question
\* has been appended and the status is CONTACTED; when it returns False,
\* after a failed delivery or an exception, it has appended no marker turn
\* and has set no status.
C32_CampaignResultMatchesDelivery ==
  [][(last' # last /\ last'.kind = "campaign")
     => LET p == last'.phone
            delivered_list == "Como foi sua experiencia?" \in last'.got
            marker == [role |-> "assistant", message |-> MSG_PerguntaFeedback, payload |-> << >>]
        IN  /\ last'.reply \in {"True", "False"}
            /\ last'.reply = "True" => delivered_list
            /\ (delivered_list /\ faults' = faults) => last'.reply = "True"
            /\ last'.reply = "True"
                 => /\ chat'[p] = Append(chat[p], marker)
                    /\ leads'[p].status = "CONTACTED"
            /\ last'.reply = "False"
                 => /\ chat'[p] = chat[p]
                    /\ leads[p].exists => leads'[p] = leads[p]]_vars

C34_EarliestFreeGridSlots ==
  (probe.fn = "get_available_slots" /\ probe.done)
  => LET duration == probe.duration_minutes
         reference ==
           {DayStart(d) + BusinessStart * 60 + k * GridStep :
              d \in {x \in 1..probe.days_ahead : Weekday(x) \in BusinessWeekdays},
              k \in 0..(((BusinessEnd - BusinessStart) * 60) \div GridStep)}
         fits == {c \in reference :
                    c + duration <= (c \div MinutesPerDay) * MinutesPerDay + BusinessEnd * 60}
         free == {c \in fits : \A i \in 1..Len(probe.busy) :
                    ~(c < probe.busy[i].end /\ c + duration > probe.busy[i].start)}
         slots == probe.slots
         starts == {slots[i].start : i \in 1..Len(slots)}
     IN  /\ Len(slots) = (IF Cardinality(free) < SlotCap THEN Cardinality(free) ELSE SlotCap)
         /\ starts \subseteq free
         /\ \A i \in 1..Len(slots) : slots[i].end = slots[i].start + duration
         /\ \A i \in 1..(Len(slots) - 1) : slots[i].start < slots[i + 1].start
         /\ \A c \in free : (\E s \in starts : c < s) => c \in starts
         /\ probe.busy = << >> => Len(slots) = (IF Cardinality(fits) < SlotCap
                                                 THEN Cardinality(fits) ELSE SlotCap)

\* a free week: the ten slots are 9:00 to 13:30 of the first day
C34_Witness ==
  /\ probe.fn = "get_available_slots" /\ probe.done
  /\ probe.busy = << >> /\ probe.duration_minutes = SlotMinutes
  /\ Len(probe.slots) = SlotCap
  /\ probe.slots[1].start = DayStart(1) + BusinessStart * 60
  /\ probe.slots[SlotCap].start = DayStart(1) + 13 * 60 + 30

C36_OfferedIdsReachTheirHandler ==
  (probe.fn = "handle_message" /\ probe.done)
  => LET offered(ids, kind) ==
           probe.label \in ids => probe.route = <<[kind |-> kind, rid |-> probe.label]>>
     IN  /\ offered({ID_feedback_positivo, ID_feedback_bom, ID_feedback_neutro,
                     ID_feedback_negativo}, "feedback")
         /\ offered({ID_interesse_alto, ID_interesse_medio, ID_interesse_futuro,
                     ID_sem_interesse}, "interest")
         /\ offered({ID_aceita_reuniao, ID_prefere_whatsapp, ID_prefere_email, ID_sem_tempo},
                    "meeting")
         /\ offered({IN_horario_1}, "time")
         /\ probe.label = <<"n", "a", "o", " ", "t", "e", "n", "h", "o", " ", "i", "n", "t", "e", "r", "e", "s", "s", "e">>
              => probe.route = <<[kind |-> "interest", rid |-> ID_sem_interesse]>>

\* C37: a text that is not empty but whose normalized form is empty, made of
\* emoji or punctuation only, has no intent: map_label_to_id returns None for
\* it, and the message is not handled as the answer to a list, so that no
\* status follows from it.
C37_EmptyKeyHasNoIntent ==
  (probe.fn = "handle_message" /\ probe.done /\ Strip(probe.label) # << >> /\ probe.key = << >>)
  => /\ probe.id = None
     /\ probe.route[1].kind \notin {"feedback", "interest", "meeting", "time"}

\* C38: every message that matches the pattern of an email address is handed
\* to the email handler, which records the email: turn; it is not taken for
\* the answer to a list because a label of the table is part of the address.
C38_EmailAddressesReachEmailHandling ==
  (probe.fn = "handle_message" /\ probe.done /\ is_email(Strip(probe.label)))
  => probe.route = <<[kind |-> "email", rid |-> Strip(probe.label)]>>

C40_SnapshotMatchesDeliveredList ==
  [][\A p \in DOMAIN leads :
       LET list == "Horarios disponiveis para nossa reuniao"
           snapshots(turns) ==
             SelectSeq(turns, LAMBDA m : m.role = "system" /\ m.message = TAG_available_slots)
           returned == {h \in inflight :
                          /\ h.phone = p /\ h.kind = "email" /\ h.pc = "send" /\ h.cont = "snapshot"
                          /\ \E x \in inflight' \cup {last'} : x.id = h.id /\ x.cont # "snapshot"}
           after(h) == CHOOSE x \in inflight' \cup {last'} : x.id = h.id
       IN  /\ (\/ snapshots(chat'[p]) # snapshots(chat[p])
               \/ leads'[p].status = "SCHEDULING" /\ leads[p].status # "SCHEDULING")
              => \E h \in returned :
                    /\ list \in after(h).got
                    /\ Len(h.slots) \in 1..SnapshotSize
                    /\ snapshots(chat'[p])
                         = Append(snapshots(chat[p]),
                                  [role |-> "system", message |-> TAG_available_slots,
                                   payload |-> [i \in 1..Len(h.slots) |->
                                                  [start |-> <<"datetime", h.slots[i].start>>,
                                                   end |-> <<"datetime", h.slots[i].end>>]]])
           /\ \A h \in returned :
                list \notin after(h).got
                => /\ chat'[p] = chat[p]
                   /\ leads'[p] = leads[p]]_vars

\* the list of five slots was delivered and its snapshot is the newest turn
\* but one of the lead, now SCHEDULING
C40_Witness ==
  /\ last.kind = "email" /\ last.reply = "Horarios enviados com email salvo"
  /\ "Horarios disponiveis para nossa reuniao" \in last.got
  /\ Len(last.slots) = SnapshotSize
  /\ leads[last.phone].status = "SCHEDULING"
  /\ Len(chat[last.phone]) >= 2
  /\ chat[last.phone][Len(chat[last.phone]) - 1].payload = ReprSlots(last.slots)
=============================================================================
